---- MODULE Spec2Model ----
(***************************************************************************)
(* A model of kwk/ghgql: the Result wrapper around a decoded GraphQL       *)
(* response (src/src/githubgraphql/result.py) and the two GithubGraphQL    *)
(* transports (src/src/ghgql/ghgql.py, src/src/githubgraphql/              *)
(* githubgraphql.py).                                                      *)
(*                                                                         *)
(* Python strings are modelled as sequences of one-character strings, so   *)
(* that str.split, the substring test of `in`, f-string formatting and     *)
(* json.loads are computed and not assumed.                                *)
(***************************************************************************)
EXTENDS Integers, Sequences, FiniteSets, TLC

(***************************************************************************)
(* JSON / Python values, as tagged records.                                *)
(***************************************************************************)
JNull == [t |-> "null"]

JBool(b) == [t |-> "bool", b |-> b]

JNum(n) == [t |-> "num", n |-> n]

JFloat(lit) == [t |-> "float", lit |-> lit]

JStr(s) == [t |-> "str", s |-> s]

JList(l) == [t |-> "list", l |-> l]

\* A dict: its entries m, and its keys ks (as values) in the order they were
\* inserted.
JObj(m, ks) == [t |-> "obj", m |-> m, ks |-> ks]

\* The entries of the empty dict {}.
EmptyMap == [k \in {} |-> JNull]

\* The entries of a dict with one entry {k: v}.
Map1(k, v) == [x \in {k} |-> v]

\* The entries of a dict with two entries {k1: v1, k2: v2}; a repeated key
\* keeps the last.
Map2(k1, v1, k2, v2) == [x \in {k1, k2} |-> IF x = k2 THEN v2 ELSE v1]

\* d[k] = v
MapPut(m, k, v) == [x \in DOMAIN m \cup {k} |-> IF x = k THEN v ELSE m[x]]

\* The dict {}.
Obj0 == JObj(EmptyMap, <<>>)

\* The dict {k: v} with a str key.
Obj1(k, v) == JObj(Map1(k, v), <<JStr(k)>>)

\* The dict {k1: v1, k2: v2} with two different str keys.
Obj2(k1, v1, k2, v2) == JObj(Map2(k1, v1, k2, v2), <<JStr(k1), JStr(k2)>>)

(***************************************************************************)
(* The outcome of a call: a returned value or a raised exception.          *)
(***************************************************************************)
Return(v) == [kind |-> "return", exc |-> "", msg |-> <<>>, value |-> v]

Raise(e, m) == [kind |-> "raise", exc |-> e, msg |-> m, value |-> JNull]

(***************************************************************************)
(* str.split("."): the segments between the dots; n dots give n+1          *)
(* segments, empty ones included ("" gives [""]).                          *)
(***************************************************************************)
RECURSIVE SplitFrom(_, _, _, _)
SplitFrom(s, i, cur, acc) ==
  IF i > Len(s) THEN Append(acc, cur)
  ELSE IF s[i] = "." THEN SplitFrom(s, i + 1, <<>>, Append(acc, cur))
  ELSE SplitFrom(s, i + 1, Append(cur, s[i]), acc)

\* A split that finds no separator: the whole key as one segment.
SplitNone(s) == <<s>>

Split(s) == SplitFrom(s, 1, <<>>, <<>>)

(***************************************************************************)
(* json.loads on a str: the scanner of the standard decoder.  The model's   *)
(* alphabet is printable ASCII with tab, line feed, form feed and carriage *)
(* return; any other code point exists only as what a \uXXXX escape        *)
(* decodes to, written as one element "\\uxxxx" (a surrogate pair as the    *)
(* two together).  Integers are TLC's, so a number must fit 32 bits.       *)
(***************************************************************************)
Ws == {" ", "\t", "\n", "\r"}

\* The characters with the code points 32..126, in order (the grave accent,
\* which a TLA+ string cannot hold, as its escape).
Ascii ==
  << " ", "!", "\"", "#", "$", "%", "&", "'", "(", ")", "*", "+",
     ",", "-", ".", "/", "0", "1", "2", "3", "4", "5", "6", "7",
     "8", "9", ":", ";", "<", "=", ">", "?", "@", "A", "B", "C",
     "D", "E", "F", "G", "H", "I", "J", "K", "L", "M", "N", "O",
     "P", "Q", "R", "S", "T", "U", "V", "W", "X", "Y", "Z", "[",
     "\\", "]", "^", "_", "\\u0060", "a", "b", "c", "d", "e", "f", "g",
     "h", "i", "j", "k", "l", "m", "n", "o", "p", "q", "r", "s",
     "t", "u", "v", "w", "x", "y", "z", "{", "|", "}", "~" >>

HexDigits == <<"0", "1", "2", "3", "4", "5", "6", "7", "8", "9", "a", "b", "c",
               "d", "e", "f">>

IsHex(c) ==
  c \in {"0", "1", "2", "3", "4", "5", "6", "7", "8", "9", "a", "b", "c", "d",
         "e", "f", "A", "B", "C", "D", "E", "F"}

HexVal(c) ==
  CASE c \in {"a", "A"} -> 10 [] c \in {"b", "B"} -> 11 [] c \in {"c", "C"} -> 12
    [] c \in {"d", "D"} -> 13 [] c \in {"e", "E"} -> 14 [] c \in {"f", "F"} -> 15
    [] OTHER -> CHOOSE n \in 0..9 : HexDigits[n + 1] = c

\* The four hex digits at i..i+3 are there.
HasHex4(s, i) == i + 3 <= Len(s) /\ \A j \in i..(i + 3) : IsHex(s[j])

\* Their value.
Hex4(s, i) ==
  HexVal(s[i]) * 4096 + HexVal(s[i + 1]) * 256 + HexVal(s[i + 2]) * 16 + HexVal(s[i + 3])

\* The character with code point n < 65536.
Chr(n) ==
  IF 32 <= n /\ n <= 126 THEN Ascii[n - 31]
  ELSE IF n = 9 THEN "\t"
  ELSE IF n = 10 THEN "\n"
  ELSE IF n = 12 THEN "\f"
  ELSE IF n = 13 THEN "\r"
  ELSE "\\u" \o HexDigits[(n \div 4096) + 1] \o HexDigits[((n \div 256) % 16) + 1]
         \o HexDigits[((n \div 16) % 16) + 1] \o HexDigits[(n % 16) + 1]

\* The control characters, with the code points 0..31, which a JSON string
\* may not hold unescaped.
ControlChars == {Chr(n) : n \in 0..31}

\* BACKSLASH: what the character after a backslash stands for.
IsSimpleEscape(c) == c \in {"\"", "\\", "/", "b", "f", "n", "r", "t"}

SimpleEscape(c) ==
  CASE c = "b" -> Chr(8) [] c = "f" -> "\f" [] c = "n" -> "\n" [] c = "r" -> "\r"
    [] c = "t" -> "\t" [] OTHER -> c

Digits == {"0", "1", "2", "3", "4", "5", "6", "7", "8", "9"}

DigitVal(c) ==
  CASE c = "0" -> 0 [] c = "1" -> 1 [] c = "2" -> 2 [] c = "3" -> 3
    [] c = "4" -> 4 [] c = "5" -> 5 [] c = "6" -> 6 [] c = "7" -> 7
    [] c = "8" -> 8 [] c = "9" -> 9

ParseFail == [ok |-> FALSE, v |-> JNull, i |-> 0]

ParseOk(v, i) == [ok |-> TRUE, v |-> v, i |-> i]

RECURSIVE SkipWs(_, _)
SkipWs(s, i) == IF i <= Len(s) /\ s[i] \in Ws THEN SkipWs(s, i + 1) ELSE i

HasAt(s, i, lit) ==
  /\ i + Len(lit) - 1 <= Len(s)
  /\ SubSeq(s, i, i + Len(lit) - 1) = lit

\* A \uXXXX escape at i (the backslash) with a high surrogate, followed by
\* one with a low surrogate.
IsSurrogatePair(s, i) ==
  /\ 55296 <= Hex4(s, i + 2) /\ Hex4(s, i + 2) <= 56319
  /\ HasAt(s, i + 6, <<"\\", "u">>)
  /\ HasHex4(s, i + 8)
  /\ 56320 <= Hex4(s, i + 8) /\ Hex4(s, i + 8) <= 57343

\* scanstring (strict) from the character after the opening quote.
RECURSIVE ScanString(_, _, _)
ScanString(s, i, acc) ==
  IF i > Len(s) THEN ParseFail
  ELSE IF s[i] = "\"" THEN ParseOk(JStr(acc), i + 1)
  ELSE IF s[i] \in ControlChars THEN ParseFail
  ELSE IF s[i] # "\\" THEN ScanString(s, i + 1, Append(acc, s[i]))
  ELSE IF i + 1 > Len(s) THEN ParseFail
  ELSE IF s[i + 1] = "u" THEN
    IF ~HasHex4(s, i + 2) THEN ParseFail
    ELSE IF IsSurrogatePair(s, i)
    THEN ScanString(s, i + 12, Append(acc, Chr(Hex4(s, i + 2)) \o Chr(Hex4(s, i + 8))))
    ELSE ScanString(s, i + 6, Append(acc, Chr(Hex4(s, i + 2))))
  ELSE IF IsSimpleEscape(s[i + 1])
  THEN ScanString(s, i + 2, Append(acc, SimpleEscape(s[i + 1])))
  ELSE ParseFail

\* The end of a run of digits starting at i (i itself when there is none).
RECURSIVE DigitsEnd(_, _)
DigitsEnd(s, i) ==
  IF i <= Len(s) /\ s[i] \in Digits THEN DigitsEnd(s, i + 1) ELSE i

RECURSIVE DigitsValue(_, _, _, _)
DigitsValue(s, i, j, acc) ==
  IF i >= j THEN acc ELSE DigitsValue(s, i + 1, j, acc * 10 + DigitVal(s[i]))

\* NUMBER_RE = (-?(?:0|[1-9]\d*))(\.\d+)?([eE][-+]?\d+)? matched at i.
ScanNumber(s, i) ==
  LET neg == i <= Len(s) /\ s[i] = "-"
      d0 == IF neg THEN i + 1 ELSE i
      intEnd == IF d0 <= Len(s) /\ s[d0] = "0" THEN d0 + 1 ELSE DigitsEnd(s, d0)
      fracEnd == IF intEnd <= Len(s) /\ s[intEnd] = "."
                    /\ DigitsEnd(s, intEnd + 1) > intEnd + 1
                 THEN DigitsEnd(s, intEnd + 1) ELSE intEnd
      e0 == IF fracEnd + 1 <= Len(s) /\ s[fracEnd + 1] \in {"+", "-"}
            THEN fracEnd + 2 ELSE fracEnd + 1
      expEnd == IF fracEnd <= Len(s) /\ s[fracEnd] \in {"e", "E"}
                   /\ DigitsEnd(s, e0) > e0
                THEN DigitsEnd(s, e0) ELSE fracEnd
      mag == DigitsValue(s, d0, intEnd, 0)
  IN IF intEnd = d0 THEN ParseFail
     ELSE IF expEnd = intEnd THEN ParseOk(JNum(IF neg THEN 0 - mag ELSE mag), intEnd)
     ELSE ParseOk(JFloat(SubSeq(s, i, expEnd - 1)), expEnd)

\* The constants the decoder accepts beside JSON's; a float is held as a text
\* that float() reads back.
sNaN == <<"N", "a", "N">>

sInfinity == <<"I", "n", "f", "i", "n", "i", "t", "y">>

sNegInfinity == <<"-">> \o sInfinity

RECURSIVE ParseValue(_, _)
RECURSIVE ParseElems(_, _, _)
RECURSIVE ParseMembers(_, _, _, _)

\* JSONArray after a value was expected at i: value, then "," or "]".
ParseElems(s, i, acc) ==
  LET Sep(l, j) ==
        IF j > Len(s) THEN ParseFail
        ELSE IF s[j] = "]" THEN ParseOk(JList(l), j + 1)
        ELSE IF s[j] = "," THEN ParseElems(s, SkipWs(s, j + 1), l)
        ELSE ParseFail
      Elem(r) == IF ~r.ok THEN ParseFail ELSE Sep(Append(acc, r.v), SkipWs(s, r.i))
  IN Elem(ParseValue(s, i))

\* JSONObject with a key's opening quote expected at i; a key that comes
\* again keeps its place and takes the later value.
ParseMembers(s, i, acc, keys) ==
  IF i > Len(s) \/ s[i] # "\"" THEN ParseFail
  ELSE LET Sep(m, ks, j) ==
             IF j > Len(s) THEN ParseFail
             ELSE IF s[j] = "}" THEN ParseOk(JObj(m, ks), j + 1)
             ELSE IF s[j] = "," THEN ParseMembers(s, SkipWs(s, j + 1), m, ks)
             ELSE ParseFail
           Member(k, r) ==
             IF ~r.ok THEN ParseFail
             ELSE Sep(MapPut(acc, k.v.s, r.v),
                      IF k.v.s \in DOMAIN acc THEN keys ELSE Append(keys, k.v),
                      SkipWs(s, r.i))
           Colon(k, c) ==
             IF c > Len(s) \/ s[c] # ":" THEN ParseFail
             ELSE Member(k, ParseValue(s, SkipWs(s, c + 1)))
           Name(k) == IF ~k.ok THEN ParseFail ELSE Colon(k, SkipWs(s, k.i))
       IN Name(ScanString(s, i + 1, <<>>))

\* scan_once at i.
ParseValue(s, i) ==
  IF i > Len(s) THEN ParseFail
  ELSE IF s[i] = "\"" THEN ScanString(s, i + 1, <<>>)
  ELSE IF s[i] = "{" THEN
    LET j == SkipWs(s, i + 1)
    IN IF j <= Len(s) /\ s[j] = "}" THEN ParseOk(Obj0, j + 1)
       ELSE ParseMembers(s, j, EmptyMap, <<>>)
  ELSE IF s[i] = "[" THEN
    LET j == SkipWs(s, i + 1)
    IN IF j <= Len(s) /\ s[j] = "]" THEN ParseOk(JList(<<>>), j + 1)
       ELSE ParseElems(s, j, <<>>)
  ELSE IF HasAt(s, i, <<"n", "u", "l", "l">>) THEN ParseOk(JNull, i + 4)
  ELSE IF HasAt(s, i, <<"t", "r", "u", "e">>) THEN ParseOk(JBool(TRUE), i + 4)
  ELSE IF HasAt(s, i, <<"f", "a", "l", "s", "e">>) THEN ParseOk(JBool(FALSE), i + 5)
  ELSE LET Number(n) ==
             IF n.ok THEN n
             ELSE IF HasAt(s, i, sNaN) THEN ParseOk(JFloat(sNaN), i + 3)
             ELSE IF HasAt(s, i, sInfinity) THEN ParseOk(JFloat(sInfinity), i + 8)
             ELSE IF HasAt(s, i, sNegInfinity) THEN ParseOk(JFloat(sNegInfinity), i + 9)
             ELSE ParseFail
       IN Number(ScanNumber(s, i))

\* json.loads(s): one value between optional whitespace, nothing after it.
Loads(s) ==
  LET Whole(r) == IF r.ok /\ SkipWs(s, r.i) = Len(s) + 1 THEN r ELSE ParseFail
  IN Whole(ParseValue(s, SkipWs(s, 1)))

(***************************************************************************)
(* Result (a dict subclass): the data and errors properties and get.       *)
(***************************************************************************)
NullText == <<"n", "u", "l", "l">>

sData == <<"d", "a", "t", "a">>

sErrors == <<"e", "r", "r", "o", "r", "s">>

\* A data property that reads the errors key.
DataReadsErrors(self) == IF sErrors \in DOMAIN self THEN self[sErrors] ELSE JNull

\* Result.data: self["data"] when the key is there, None otherwise.
Data(self) == IF sData \in DOMAIN self THEN self[sData] ELSE JNull

\* Result.errors: self["errors"] when the key is there, None otherwise.
Errors(self) == IF sErrors \in DOMAIN self THEN self[sErrors] ELSE JNull

\* Python's substring test for two strs.
IsSubstr(k, s) == \E i \in 0..(Len(s) - Len(k)) : SubSeq(s, i + 1, i + Len(k)) = k

\* `k in cur` for a str k: ok is FALSE where Python raises TypeError
\* (None, bool, int and float are not iterable).
Contains(cur, k) ==
  CASE cur.t = "obj" -> [ok |-> TRUE, b |-> k \in DOMAIN cur.m]
    [] cur.t = "str" -> [ok |-> TRUE, b |-> IsSubstr(k, cur.s)]
    [] cur.t = "list" ->
         [ok |-> TRUE,
          b |-> \E j \in 1..Len(cur.l) : cur.l[j].t = "str" /\ cur.l[j].s = k]
    [] OTHER -> [ok |-> FALSE, b |-> FALSE]

\* A loop that looks a key up in a str cursor without decoding it.
RECURSIVE GetWalkNoParse(_, _, _)
GetWalkNoParse(cur, keys, default) ==
  IF keys = <<>> THEN Return(cur)
  ELSE LET k == Head(keys)
       IN IF ~Contains(cur, k).ok THEN Raise("TypeError", <<>>)
          ELSE IF ~Contains(cur, k).b THEN Return(default)
          ELSE IF cur.t = "obj" THEN GetWalkNoParse(cur.m[k], Tail(keys), default)
          ELSE Raise("TypeError", <<>>)

\* The loop of Result.get over the remaining keys, from cursor cur.
RECURSIVE GetWalk(_, _, _)
GetWalk(cur, keys, default) ==
  IF keys = <<>> THEN Return(cur)
  ELSE LET k == Head(keys)
           Step(c) ==
             IF ~Contains(c, k).ok THEN Raise("TypeError", <<>>)
             ELSE IF ~Contains(c, k).b THEN Return(default)
             ELSE IF c.t = "obj" THEN GetWalk(c.m[k], Tail(keys), default)
             ELSE Raise("TypeError", <<>>)
           Decoded(r) == IF ~r.ok THEN Raise("JSONDecodeError", <<>>) ELSE Step(r.v)
       IN IF cur.t = "str" /\ cur.s # NullText THEN Decoded(Loads(cur.s))
          ELSE Step(cur)

\* Result.get(key, default).
Get(self, key, default) == GetWalk(Data(self), Split(key), default)

\* A value with every JSON-encoded str in it replaced by what it decodes to.
RECURSIVE DecodeAll(_)
DecodeAll(v) ==
  CASE v.t = "obj" -> JObj([k \in DOMAIN v.m |-> DecodeAll(v.m[k])], v.ks)
    [] v.t = "str" /\ v.s # NullText /\ Loads(v.s).ok -> Loads(v.s).v
    [] OTHER -> v

\* A get that stores what it decoded back into the dict.
SelfAfterGetStoresDecoded(self, key, default) ==
  [k \in DOMAIN self |-> IF k = sData THEN DecodeAll(self[k]) ELSE self[k]]

\* The dict after get: the loop rebinds the local current_value only, and
\* nothing is assigned to self or to a value in it.
SelfAfterGet(self, key, default) == self

(***************************************************************************)
(* The texts, responses, paths and defaults the model draws inputs from.   *)
(***************************************************************************)
sStatus == <<"s", "t", "a", "t", "u", "s">>

sItem == <<"i", "t", "e", "m">>

sId == <<"i", "d">>

sFoo == <<"f", "o", "o">>

sBar == <<"b", "a", "r">>

sMessage == <<"m", "e", "s", "s", "a", "g", "e">>

sBoom == <<"b", "o", "o", "m">>

\* The str '{"id": 7}': a JSON-encoded mapping.
sEncodedItem == <<"{", "\"", "i", "d", "\"", ":", " ", "7", "}">>

\* The str '"item"': a JSON-encoded str.
sQuotedItem == <<"\"", "i", "t", "e", "m", "\"">>

\* The str '{"item": "{\"id\": 7}"}': a JSON-encoded mapping whose item is
\* again a JSON-encoded mapping.
sTwiceEncoded ==
  <<"{", "\"", "i", "t", "e", "m", "\"", ":", " ", "\"", "{", "\\", "\"", "i",
    "d", "\\", "\"", ":", " ", "7", "}", "\"", "}">>

\* a.b for two strs.
Dot(a, b) == a \o <<".">> \o b

\* {"status": v}
UnderStatus(v) == Obj1(sStatus, v)

\* The data of the tests: {"status": {"item": {"id": "123"}}}.
FixtureData == UnderStatus(Obj1(sItem, Obj1(sId, JStr(<<"1", "2", "3">>))))

\* What the model puts under data.status.
StatusValues ==
  { Obj1(sItem, JStr(sEncodedItem)),
    Obj1(sItem, JNull),
    JNull,
    JStr(NullText),
    JStr(sItem),
    JStr(<<"1", "2">>),
    JStr(sQuotedItem),
    JStr(sEncodedItem),
    JStr(sTwiceEncoded),
    JStr(sInfinity),
    JList(<<JStr(sItem)>>),
    JNum(5),
    JBool(TRUE),
    Obj0 }

\* What the model puts under data.
DataValues ==
  {FixtureData} \cup {UnderStatus(v) : v \in StatusValues}
    \cup { JNull, JStr(NullText), JList(<<>>), Obj0,
           Obj2(<<>>, JNum(1), sStatus, Obj1(<<>>, JNum(2))) }

\* An errors list with one error object.
ErrorsValue == JList(<<Obj1(sMessage, JStr(sBoom))>>)

\* The mappings a Result is constructed from.
Responses ==
  {Map1(sData, d) : d \in DataValues}
    \cup {EmptyMap, Map1(sErrors, ErrorsValue)}
    \cup {Map2(sData, d, sErrors, ErrorsValue) : d \in {FixtureData, JNull}}

\* The keys passed to get: dotted paths, some with an empty segment.
Paths ==
  { Dot(sStatus, Dot(sItem, sId)),
    Dot(sStatus, Dot(sItem, sId \o <<"2">>)),
    Dot(sStatus, Dot(sItem, sFoo)),
    Dot(sStatus, Dot(sItem, Dot(<<>>, sFoo))),
    Dot(sStatus, Dot(sFoo, sId)),
    Dot(sStatus, sItem),
    Dot(sStatus, <<"n", "u">>),
    Dot(sStatus, <<>>),
    Dot(<<>>, sStatus),
    Dot(sFoo, sBar),
    sStatus,
    <<>> }

\* The defaults passed to get when one is passed.
Defaults == {JNum(42), JNull}

\* The number of calls made on one Result.
MaxCalls == 2

(***************************************************************************)
(* Python and library helpers the transports use.                          *)
(***************************************************************************)
\* The digits of a natural number.
RECURSIVE NatDigits(_)
NatDigits(n) ==
  IF n < 10 THEN <<HexDigits[n + 1]>>
  ELSE NatDigits(n \div 10) \o <<HexDigits[(n % 10) + 1]>>

\* str(n) for an int.
IntText(n) == IF n < 0 THEN <<"-">> \o NatDigits(0 - n) ELSE NatDigits(n)

\* n zeros.
Zeros(n) == [i \in 1..n |-> "0"]

\* A float's text without its sign (the text is one the decoder's NUMBER_RE
\* matched: digits, an optional fraction, an optional exponent).
FloatUnsigned(lit) == IF lit[1] = "-" THEN Tail(lit) ELSE lit

\* The index after the integer digits of an unsigned float text.
FloatIntEnd(u) == DigitsEnd(u, 1)

\* The index after its fraction.
FloatFracEnd(u) ==
  LET After(e) == IF e <= Len(u) /\ u[e] = "." THEN DigitsEnd(u, e + 1) ELSE e
  IN After(FloatIntEnd(u))

\* Its integer and fraction digits, in one run, as numbers.
FloatDigits(u) ==
  LET Run(d) == [i \in 1..Len(d) |-> DigitVal(d[i])]
      Parts(ie, fe) == Run(SubSeq(u, 1, ie - 1) \o SubSeq(u, ie + 1, fe - 1))
  IN Parts(FloatIntEnd(u), FloatFracEnd(u))

\* The index of the first number of d in lo..hi that is not 0; 0 without one.
RECURSIVE FirstNonZero(_, _, _)
FirstNonZero(d, lo, hi) ==
  IF lo > hi THEN 0
  ELSE IF lo = hi THEN (IF d[lo] # 0 THEN lo ELSE 0)
  ELSE LET l == FirstNonZero(d, lo, (lo + hi) \div 2)
       IN IF l # 0 THEN l ELSE FirstNonZero(d, ((lo + hi) \div 2) + 1, hi)

\* The index of the last number of d in lo..hi that is not 0; 0 without one.
RECURSIVE LastNonZero(_, _, _)
LastNonZero(d, lo, hi) ==
  IF lo > hi THEN 0
  ELSE IF lo = hi THEN (IF d[lo] # 0 THEN lo ELSE 0)
  ELSE LET r == LastNonZero(d, ((lo + hi) \div 2) + 1, hi)
       IN IF r # 0 THEN r ELSE LastNonZero(d, lo, (lo + hi) \div 2)

\* The exponent it is written with (0 when it has none). An exponent of more
\* than six significant digits is read as 999999, which is as far beyond
\* every double.
FloatWrittenExp(u) ==
  LET Mag(d0, run, nz) ==
        IF nz = 0 THEN 0
        ELSE IF Len(run) - nz + 1 > 6 THEN 999999
        ELSE DigitsValue(u, d0 + nz - 1, Len(u) + 1, 0)
      Run(d0, run) == Mag(d0, run, FirstNonZero(run, 1, Len(run)))
      From(d0) == Run(d0, [i \in 1..(Len(u) + 1 - d0) |-> DigitVal(u[d0 + i - 1])])
      Signed(neg, mag) == IF neg THEN 0 - mag ELSE mag
      At(e) ==
        IF e > Len(u) THEN 0
        ELSE Signed(e < Len(u) /\ u[e + 1] = "-",
                    From(IF e < Len(u) /\ u[e + 1] \in {"+", "-"} THEN e + 2 ELSE e + 1))
  IN At(FloatFracEnd(u))

\* The significant digits: from the first to the last that is not 0.
FloatSig(u) ==
  LET Cut(d, f) == IF f = 0 THEN <<>> ELSE SubSeq(d, f, LastNonZero(d, 1, Len(d)))
      Of(d) == Cut(d, FirstNonZero(d, 1, Len(d)))
  IN Of(FloatDigits(u))

\* The exponent of the value written d.ddd x 10^e.
FloatSciExp(u) ==
  LET Of(d) == (FloatIntEnd(u) - 1) - FirstNonZero(d, 1, Len(d)) + FloatWrittenExp(u)
  IN Of(FloatDigits(u))

(***************************************************************************)
(* Naturals of any size, for the exact value of a float: the digits 0..9,  *)
(* most significant first, without leading zeros (0 is <<>>).  The         *)
(* operators split their argument in halves and bind each intermediate     *)
(* result as the element of a one-element set, which TLC evaluates before  *)
(* it goes on: that keeps the nesting of the evaluation low.               *)
(***************************************************************************)
\* The element of a one-element set.
Only(S) == CHOOSE x \in S : TRUE

\* n zeros.
BigZeros(n) == [i \in 1..n |-> 0]

\* a without its leading zeros.
BigNorm(a) ==
  IF FirstNonZero(a, 1, Len(a)) = 0 THEN <<>>
  ELSE SubSeq(a, FirstNonZero(a, 1, Len(a)), Len(a))

\* A small natural as a big one.
RECURSIVE BigOfNat(_)
BigOfNat(n) == IF n = 0 THEN <<>> ELSE Append(BigOfNat(n \div 10), n % 10)

\* a and b of one length compared from lo to hi: -1, 0 or 1.
RECURSIVE BigCmpSeg(_, _, _, _)
BigCmpSeg(a, b, lo, hi) ==
  IF lo > hi THEN 0
  ELSE IF lo = hi
  THEN (IF a[lo] < b[lo] THEN 0 - 1 ELSE IF a[lo] > b[lo] THEN 1 ELSE 0)
  ELSE LET l == BigCmpSeg(a, b, lo, (lo + hi) \div 2)
       IN IF l # 0 THEN l ELSE BigCmpSeg(a, b, ((lo + hi) \div 2) + 1, hi)

\* a compared with b: -1, 0 or 1.
BigCmp(a, b) ==
  IF Len(a) < Len(b) THEN 0 - 1
  ELSE IF Len(a) > Len(b) THEN 1
  ELSE BigCmpSeg(a, b, 1, Len(a))

\* The digits lo..hi of a * f + c, and the carry out of them (f < 2^27).
RECURSIVE BigMulSeg(_, _, _, _, _)
BigMulSeg(a, lo, hi, f, c) ==
  IF lo = hi
  THEN [d |-> <<(a[lo] * f + c) % 10>>, c |-> (a[lo] * f + c) \div 10]
  ELSE Only(UNION {{[d |-> l.d \o r.d, c |-> l.c] :
                       l \in {BigMulSeg(a, lo, (lo + hi) \div 2, f, r.c)}} :
                    r \in {BigMulSeg(a, ((lo + hi) \div 2) + 1, hi, f, c)}})

\* a * f + c for small f and c.
BigMulAdd(a, f, c) ==
  IF a = <<>> THEN BigOfNat(c)
  ELSE Only({BigNorm(BigOfNat(r.c) \o r.d) : r \in {BigMulSeg(a, 1, Len(a), f, c)}})

\* The digits lo..hi of a - b - c for b as long as a, and the borrow.
RECURSIVE BigSubSeg(_, _, _, _, _)
BigSubSeg(a, b, lo, hi, c) ==
  IF lo = hi
  THEN IF a[lo] - b[lo] - c < 0
       THEN [d |-> <<a[lo] - b[lo] - c + 10>>, c |-> 1]
       ELSE [d |-> <<a[lo] - b[lo] - c>>, c |-> 0]
  ELSE Only(UNION {{[d |-> l.d \o r.d, c |-> l.c] :
                       l \in {BigSubSeg(a, b, lo, (lo + hi) \div 2, r.c)}} :
                    r \in {BigSubSeg(a, b, ((lo + hi) \div 2) + 1, hi, c)}})

\* a - b, for a >= b.
BigSub(a, b) ==
  IF a = <<>> THEN <<>>
  ELSE Only({BigNorm(BigSubSeg(a, p, 1, Len(a), 0).d) :
               p \in {BigZeros(Len(a) - Len(b)) \o b}})

\* a * 2^j.
RECURSIVE BigMulPow2(_, _)
BigMulPow2(a, j) ==
  IF j = 0 THEN a
  ELSE IF j > 27 THEN Only({BigMulPow2(b, j - (j \div 2)) : b \in {BigMulPow2(a, j \div 2)}})
  ELSE BigMulAdd(a, 2^j, 0)

\* a * 5^j.
RECURSIVE BigMulPow5(_, _)
BigMulPow5(a, j) ==
  IF j = 0 THEN a
  ELSE IF j > 11 THEN Only({BigMulPow5(b, j - (j \div 2)) : b \in {BigMulPow5(a, j \div 2)}})
  ELSE BigMulAdd(a, 5^j, 0)

\* How often sh goes into rem (at most 9 times), and what is left.
RECURSIVE BigDivDigit(_, _, _)
BigDivDigit(rem, sh, n) ==
  IF BigCmp(rem, sh) < 0 THEN [q |-> n, r |-> rem]
  ELSE Only({BigDivDigit(r, sh, n + 1) : r \in {BigSub(rem, sh)}})

\* Long division by d, from the digit of 10^p down.
RECURSIVE BigDivFrom(_, _, _, _)
BigDivFrom(rem, d, p, q) ==
  IF p < 0 THEN [q |-> BigNorm(q), r |-> rem]
  ELSE Only({BigDivFrom(s.r, d, p - 1, q \o <<s.q>>) :
               s \in {BigDivDigit(rem, d \o BigZeros(p), 0)}})

\* The quotient and the remainder of a by d, d not 0.
BigDivMod(a, d) ==
  Only(UNION {{BigDivFrom(x, y, Len(x) - Len(y), <<>>) : x \in {a}} : y \in {d}})

(***************************************************************************)
(* float(text): the double nearest to the decimal value, ties to even.     *)
(***************************************************************************)
FloatZero == [k |-> "zero", m |-> <<>>, e |-> 0]

FloatInf == [k |-> "inf", m |-> <<>>, e |-> 0]

\* 0.d x 10^(s+1) over 2^e, as a quotient with its remainder and divisor:
\* sig are the significant digits and s the exponent of the first.
ScaledBy(sig, s, e) ==
  LET x == s - Len(sig) + 1
  IN Only(UNION {{[q |-> qr.q, r |-> qr.r, d |-> den] : qr \in {BigDivMod(num, den)}} :
                 num \in {BigMulPow2(sig \o BigZeros(IF x > 0 THEN x ELSE 0),
                                      IF e < 0 THEN 0 - e ELSE 0)},
                 den \in {BigMulPow2(<<1>> \o BigZeros(IF x < 0 THEN 0 - x ELSE 0),
                                      IF e > 0 THEN e ELSE 0)}})

\* The quotient and the remainder of a by a small f, from digit i on.
RECURSIVE BigDivSmallFrom(_, _, _, _, _)
BigDivSmallFrom(a, i, f, rem, q) ==
  IF i > Len(a) THEN [q |-> BigNorm(q), r |-> rem]
  ELSE BigDivSmallFrom(a, i + 1, f, (rem * 10 + a[i]) % f,
                       Append(q, (rem * 10 + a[i]) \div f))

BigDivSmall(a, f) == BigDivSmallFrom(a, 1, f, 0, <<>>)

\* The double m x 2^e nearest to the significant digits sig at exponent s,
\* for -324 <= s <= 308: 2^52 <= m < 2^53, or e = -1074 for a subnormal.
\* The value is divided by 2^e0 for an e0 that is at most 8 too low, and
\* the quotient's excess bits k are rounded off, a tie to the even m.
DoubleOf(sig, s) ==
  LET e0 == IF ((s * 33220) \div 10000) - 54 < 0 - 1074 THEN 0 - 1074
            ELSE ((s * 33220) \div 10000) - 54
  IN Only(UNION {UNION {UNION {UNION {
       {IF m = <<>> THEN FloatZero
        ELSE IF (IF m = top THEN e0 + b + 1 ELSE e0 + b) > 971 THEN FloatInf
        ELSE IF m = top
        THEN [k |-> "fin", m |-> BigMulPow2(<<1>>, 52), e |-> e0 + b + 1]
        ELSE [k |-> "fin", m |-> m, e |-> e0 + b] :
          \* the quotient rounded, a tie to the even one; a carry makes 2^53
          m \in {IF c > 0 \/ (c = 0 /\ lo.q # <<>> /\ lo.q[Len(lo.q)] % 2 = 1)
                 THEN BigMulAdd(lo.q, 1, 1) ELSE lo.q},
          top \in {BigMulPow2(<<1>>, 53)}} :
          \* what was cut off compared with a half: -1, 0 or 1
          c \in {IF b = 0 THEN BigCmp(BigMulAdd(q0.r, 2, 0), q0.d)
                 ELSE IF lo.r > 2^(b - 1) THEN 1
                 ELSE IF lo.r < 2^(b - 1) THEN 0 - 1
                 ELSE IF q0.r # <<>> THEN 1 ELSE 0}} :
          \* the quotient without its b low bits
          lo \in {BigDivSmall(q0.q, 2^b)}} :
          \* the bits the quotient has beyond 53
          b \in {Cardinality({i \in 1..8 :
                                BigCmp(q0.q, BigMulPow2(<<1>>, 52 + i)) >= 0})}} :
          q0 \in {ScaledBy(sig, s, e0)}})

\* The double float(lit) is, without its sign.
FloatValue(lit) ==
  LET Of(sig, s) ==
        IF sig = <<>> THEN FloatZero
        ELSE IF s < 0 - 324 THEN FloatZero
        ELSE IF s > 308 THEN FloatInf
        ELSE DoubleOf(sig, s)
      OfUnsigned(u) == Of(FloatSig(u), FloatSciExp(u))
  IN IF lit = sNaN THEN [k |-> "nan", m |-> <<>>, e |-> 0]
     ELSE IF lit \in {sInfinity, sNegInfinity} THEN FloatInf
     ELSE OfUnsigned(FloatUnsigned(lit))

\* float(text) is 0.0 or -0.0.
FloatIsZero(lit) == FloatValue(lit).k = "zero"

\* bool(v)
Truthy(v) ==
  CASE v.t = "null" -> FALSE
    [] v.t = "bool" -> v.b
    [] v.t = "num" -> v.n # 0
    [] v.t = "float" ->
         ~FloatIsZero(v.lit)
    [] v.t = "str" -> v.s # <<>>
    [] v.t = "list" -> v.l # <<>>
    [] v.t = "obj" -> DOMAIN v.m # {}

\* The keyword argument both ghgql methods and its constructor look up.
RaiseOnError == "raise_on_error"

\* kwargs.get(name, default)
KwGet(kwargs, name, default) ==
  IF name \in DOMAIN kwargs THEN kwargs[name] ELSE default

sGraphQLError == <<"G", "r", "a", "p", "h", "Q", "L", " ", "E", "r", "r", "o", "r">>

\* fnc.get("errors[0].message", res, default=d): res["errors"][0]["message"]
\* when every step exists, d otherwise.
FncGetFirstMessage(res, d) ==
  IF sErrors \notin DOMAIN res THEN d
  ELSE LET e == res[sErrors]
       IN IF e.t # "list" \/ e.l = <<>> THEN d
          ELSE IF e.l[1].t # "obj" \/ sMessage \notin DOMAIN e.l[1].m THEN d
          ELSE e.l[1].m[sMessage]

\* The exact decimal value of the double m x 2^e: digits d and the exponent s
\* of the first of them.
ExactDecimal(m, e) ==
  LET d == IF e >= 0 THEN BigMulPow2(m, e) ELSE BigMulPow5(m, 0 - e)
  IN [d |-> d, s |-> Len(d) - 1 + (IF e >= 0 THEN 0 ELSE e)]

\* A decimal rounded to n significant digits: to the nearest of the two
\* decimals of n digits around it, a tie to the even one; with far, to the
\* other of the two.
RoundedTo(x, n, far) ==
  IF Len(x.d) <= n THEN x
  ELSE LET more == FirstNonZero(x.d, n + 2, Len(x.d)) # 0
           up == (\/ x.d[n + 1] > 5
                  \/ x.d[n + 1] = 5 /\ (more \/ x.d[n] % 2 = 1)) # far
           Cut(r) == [d |-> SubSeq(r, 1, LastNonZero(r, 1, Len(r))),
                      s |-> IF Len(r) > n THEN x.s + 1 ELSE x.s]
       IN Cut(IF up THEN BigMulAdd(SubSeq(x.d, 1, n), 1, 1) ELSE SubSeq(x.d, 1, n))

\* The shortest decimal, of n digits or more, that float() reads back as v,
\* and of two of one length the nearer to v (x is v's exact value); 17 digits
\* always read back.
RECURSIVE ShortestFrom(_, _, _)
ShortestFrom(v, x, n) ==
  LET Try(r, o) == IF n >= 17 \/ DoubleOf(r.d, r.s) = v THEN r
                   ELSE IF DoubleOf(o.d, o.s) = v THEN o
                   ELSE ShortestFrom(v, x, n + 1)
  IN Try(RoundedTo(x, n, FALSE), RoundedTo(x, n, TRUE))

\* The digits and the exponent repr writes for a finite double that is not 0.
ShortestDecimal(v) == ShortestFrom(v, ExactDecimal(v.m, v.e), 1)

\* repr(x) for a float, from its text: the shortest digits that read back as
\* the same double, in fixed notation for an exponent in -4..15 and in
\* scientific notation otherwise.
FloatRepr(lit) ==
  LET sign == IF lit[1] = "-" THEN <<"-">> ELSE <<>>
      Written(sig, e, n) ==
        IF e >= 16 \/ e < 0 - 4
        THEN sign \o <<sig[1]>> \o (IF n > 1 THEN <<".">> \o Tail(sig) ELSE <<>>)
               \o <<"e", IF e < 0 THEN "-" ELSE "+">>
               \o (IF e < 10 /\ e > 0 - 10 THEN <<"0">> ELSE <<>>)
               \o NatDigits(IF e < 0 THEN 0 - e ELSE e)
        ELSE IF e < 0 THEN sign \o <<"0", ".">> \o Zeros(0 - e - 1) \o sig
        ELSE IF n <= e + 1 THEN sign \o sig \o Zeros(e + 1 - n) \o <<".", "0">>
        ELSE sign \o SubSeq(sig, 1, e + 1) \o <<".">> \o SubSeq(sig, e + 2, n)
      Finite(c) == Written([i \in 1..Len(c.d) |-> HexDigits[c.d[i] + 1]], c.s, Len(c.d))
      Of(v) ==
        IF v.k = "nan" THEN <<"n", "a", "n">>
        ELSE IF v.k = "inf" THEN sign \o <<"i", "n", "f">>
        ELSE IF v.k = "zero" THEN sign \o <<"0", ".", "0">>
        ELSE Finite(ShortestDecimal(v))
  IN Of(FloatValue(lit))

\* A dict's key for a hashable value: values that are equal are one key.  A
\* str is its own key; a key that is no str starts with "", which no str
\* does.  A number is keyed by its value: True is 1 and False is 0, and a
\* float that is a whole number is that int (repr writes it as digits and
\* ".0"; -0.0 is 0).
KeyOf(v) ==
  CASE v.t = "str" -> v.s
    [] v.t = "null" -> <<"", "None">>
    [] v.t = "bool" -> <<"", "int">> \o IntText(IF v.b THEN 1 ELSE 0)
    [] v.t = "num" -> <<"", "int">> \o IntText(v.n)
    [] v.t = "float" ->
         LET Key(r) ==
               IF ~(Len(r) > 2 /\ SubSeq(r, Len(r) - 1, Len(r)) = <<".", "0">>
                      /\ \A i \in 1..(Len(r) - 2) : r[i] \in Digits \cup {"-"})
               THEN <<"", "float">> \o r
               ELSE IF SubSeq(r, 1, Len(r) - 2) = <<"-", "0">> THEN <<"", "int", "0">>
               ELSE <<"", "int">> \o SubSeq(r, 1, Len(r) - 2)
         IN Key(FloatRepr(v.lit))

\* The code points str.isprintable() is false for, as ranges from..to: the
\* controls, the separators but the space, the format characters, the
\* surrogates, the private use and the unassigned code points of Unicode
\* 14.0.0, the version of Python 3.11.
NonPrintableRanges ==
  <<<<0, 31>>, <<127, 160>>, <<173, 173>>, <<888, 889>>, <<896, 899>>,
    <<907, 907>>, <<909, 909>>, <<930, 930>>, <<1328, 1328>>, <<1367, 1368>>,
    <<1419, 1420>>, <<1424, 1424>>, <<1480, 1487>>, <<1515, 1518>>,
    <<1525, 1541>>, <<1564, 1564>>, <<1757, 1757>>, <<1806, 1807>>,
    <<1867, 1868>>, <<1970, 1983>>, <<2043, 2044>>, <<2094, 2095>>,
    <<2111, 2111>>, <<2140, 2141>>, <<2143, 2143>>, <<2155, 2159>>,
    <<2191, 2199>>, <<2274, 2274>>, <<2436, 2436>>, <<2445, 2446>>,
    <<2449, 2450>>, <<2473, 2473>>, <<2481, 2481>>, <<2483, 2485>>,
    <<2490, 2491>>, <<2501, 2502>>, <<2505, 2506>>, <<2511, 2518>>,
    <<2520, 2523>>, <<2526, 2526>>, <<2532, 2533>>, <<2559, 2560>>,
    <<2564, 2564>>, <<2571, 2574>>, <<2577, 2578>>, <<2601, 2601>>,
    <<2609, 2609>>, <<2612, 2612>>, <<2615, 2615>>, <<2618, 2619>>,
    <<2621, 2621>>, <<2627, 2630>>, <<2633, 2634>>, <<2638, 2640>>,
    <<2642, 2648>>, <<2653, 2653>>, <<2655, 2661>>, <<2679, 2688>>,
    <<2692, 2692>>, <<2702, 2702>>, <<2706, 2706>>, <<2729, 2729>>,
    <<2737, 2737>>, <<2740, 2740>>, <<2746, 2747>>, <<2758, 2758>>,
    <<2762, 2762>>, <<2766, 2767>>, <<2769, 2783>>, <<2788, 2789>>,
    <<2802, 2808>>, <<2816, 2816>>, <<2820, 2820>>, <<2829, 2830>>,
    <<2833, 2834>>, <<2857, 2857>>, <<2865, 2865>>, <<2868, 2868>>,
    <<2874, 2875>>, <<2885, 2886>>, <<2889, 2890>>, <<2894, 2900>>,
    <<2904, 2907>>, <<2910, 2910>>, <<2916, 2917>>, <<2936, 2945>>,
    <<2948, 2948>>, <<2955, 2957>>, <<2961, 2961>>, <<2966, 2968>>,
    <<2971, 2971>>, <<2973, 2973>>, <<2976, 2978>>, <<2981, 2983>>,
    <<2987, 2989>>, <<3002, 3005>>, <<3011, 3013>>, <<3017, 3017>>,
    <<3022, 3023>>, <<3025, 3030>>, <<3032, 3045>>, <<3067, 3071>>,
    <<3085, 3085>>, <<3089, 3089>>, <<3113, 3113>>, <<3130, 3131>>,
    <<3141, 3141>>, <<3145, 3145>>, <<3150, 3156>>, <<3159, 3159>>,
    <<3163, 3164>>, <<3166, 3167>>, <<3172, 3173>>, <<3184, 3190>>,
    <<3213, 3213>>, <<3217, 3217>>, <<3241, 3241>>, <<3252, 3252>>,
    <<3258, 3259>>, <<3269, 3269>>, <<3273, 3273>>, <<3278, 3284>>,
    <<3287, 3292>>, <<3295, 3295>>, <<3300, 3301>>, <<3312, 3312>>,
    <<3315, 3327>>, <<3341, 3341>>, <<3345, 3345>>, <<3397, 3397>>,
    <<3401, 3401>>, <<3408, 3411>>, <<3428, 3429>>, <<3456, 3456>>,
    <<3460, 3460>>, <<3479, 3481>>, <<3506, 3506>>, <<3516, 3516>>,
    <<3518, 3519>>, <<3527, 3529>>, <<3531, 3534>>, <<3541, 3541>>,
    <<3543, 3543>>, <<3552, 3557>>, <<3568, 3569>>, <<3573, 3584>>,
    <<3643, 3646>>, <<3676, 3712>>, <<3715, 3715>>, <<3717, 3717>>,
    <<3723, 3723>>, <<3748, 3748>>, <<3750, 3750>>, <<3774, 3775>>,
    <<3781, 3781>>, <<3783, 3783>>, <<3790, 3791>>, <<3802, 3803>>,
    <<3808, 3839>>, <<3912, 3912>>, <<3949, 3952>>, <<3992, 3992>>,
    <<4029, 4029>>, <<4045, 4045>>, <<4059, 4095>>, <<4294, 4294>>,
    <<4296, 4300>>, <<4302, 4303>>, <<4681, 4681>>, <<4686, 4687>>,
    <<4695, 4695>>, <<4697, 4697>>, <<4702, 4703>>, <<4745, 4745>>,
    <<4750, 4751>>, <<4785, 4785>>, <<4790, 4791>>, <<4799, 4799>>,
    <<4801, 4801>>, <<4806, 4807>>, <<4823, 4823>>, <<4881, 4881>>,
    <<4886, 4887>>, <<4955, 4956>>, <<4989, 4991>>, <<5018, 5023>>,
    <<5110, 5111>>, <<5118, 5119>>, <<5760, 5760>>, <<5789, 5791>>,
    <<5881, 5887>>, <<5910, 5918>>, <<5943, 5951>>, <<5972, 5983>>,
    <<5997, 5997>>, <<6001, 6001>>, <<6004, 6015>>, <<6110, 6111>>,
    <<6122, 6127>>, <<6138, 6143>>, <<6158, 6158>>, <<6170, 6175>>,
    <<6265, 6271>>, <<6315, 6319>>, <<6390, 6399>>, <<6431, 6431>>,
    <<6444, 6447>>, <<6460, 6463>>, <<6465, 6467>>, <<6510, 6511>>,
    <<6517, 6527>>, <<6572, 6575>>, <<6602, 6607>>, <<6619, 6621>>,
    <<6684, 6685>>, <<6751, 6751>>, <<6781, 6782>>, <<6794, 6799>>,
    <<6810, 6815>>, <<6830, 6831>>, <<6863, 6911>>, <<6989, 6991>>,
    <<7039, 7039>>, <<7156, 7163>>, <<7224, 7226>>, <<7242, 7244>>,
    <<7305, 7311>>, <<7355, 7356>>, <<7368, 7375>>, <<7419, 7423>>,
    <<7958, 7959>>, <<7966, 7967>>, <<8006, 8007>>, <<8014, 8015>>,
    <<8024, 8024>>, <<8026, 8026>>, <<8028, 8028>>, <<8030, 8030>>,
    <<8062, 8063>>, <<8117, 8117>>, <<8133, 8133>>, <<8148, 8149>>,
    <<8156, 8156>>, <<8176, 8177>>, <<8181, 8181>>, <<8191, 8207>>,
    <<8232, 8239>>, <<8287, 8303>>, <<8306, 8307>>, <<8335, 8335>>,
    <<8349, 8351>>, <<8385, 8399>>, <<8433, 8447>>, <<8588, 8591>>,
    <<9255, 9279>>, <<9291, 9311>>, <<11124, 11125>>, <<11158, 11158>>,
    <<11508, 11512>>, <<11558, 11558>>, <<11560, 11564>>, <<11566, 11567>>,
    <<11624, 11630>>, <<11633, 11646>>, <<11671, 11679>>, <<11687, 11687>>,
    <<11695, 11695>>, <<11703, 11703>>, <<11711, 11711>>, <<11719, 11719>>,
    <<11727, 11727>>, <<11735, 11735>>, <<11743, 11743>>, <<11870, 11903>>,
    <<11930, 11930>>, <<12020, 12031>>, <<12246, 12271>>, <<12284, 12288>>,
    <<12352, 12352>>, <<12439, 12440>>, <<12544, 12548>>, <<12592, 12592>>,
    <<12687, 12687>>, <<12772, 12783>>, <<12831, 12831>>, <<42125, 42127>>,
    <<42183, 42191>>, <<42540, 42559>>, <<42744, 42751>>, <<42955, 42959>>,
    <<42962, 42962>>, <<42964, 42964>>, <<42970, 42993>>, <<43053, 43055>>,
    <<43066, 43071>>, <<43128, 43135>>, <<43206, 43213>>, <<43226, 43231>>,
    <<43348, 43358>>, <<43389, 43391>>, <<43470, 43470>>, <<43482, 43485>>,
    <<43519, 43519>>, <<43575, 43583>>, <<43598, 43599>>, <<43610, 43611>>,
    <<43715, 43738>>, <<43767, 43776>>, <<43783, 43784>>, <<43791, 43792>>,
    <<43799, 43807>>, <<43815, 43815>>, <<43823, 43823>>, <<43884, 43887>>,
    <<44014, 44015>>, <<44026, 44031>>, <<55204, 55215>>, <<55239, 55242>>,
    <<55292, 63743>>, <<64110, 64111>>, <<64218, 64255>>, <<64263, 64274>>,
    <<64280, 64284>>, <<64311, 64311>>, <<64317, 64317>>, <<64319, 64319>>,
    <<64322, 64322>>, <<64325, 64325>>, <<64451, 64466>>, <<64912, 64913>>,
    <<64968, 64974>>, <<64976, 65007>>, <<65050, 65055>>, <<65107, 65107>>,
    <<65127, 65127>>, <<65132, 65135>>, <<65141, 65141>>, <<65277, 65280>>,
    <<65471, 65473>>, <<65480, 65481>>, <<65488, 65489>>, <<65496, 65497>>,
    <<65501, 65503>>, <<65511, 65511>>, <<65519, 65531>>, <<65534, 65535>>,
    <<65548, 65548>>, <<65575, 65575>>, <<65595, 65595>>, <<65598, 65598>>,
    <<65614, 65615>>, <<65630, 65663>>, <<65787, 65791>>, <<65795, 65798>>,
    <<65844, 65846>>, <<65935, 65935>>, <<65949, 65951>>, <<65953, 65999>>,
    <<66046, 66175>>, <<66205, 66207>>, <<66257, 66271>>, <<66300, 66303>>,
    <<66340, 66348>>, <<66379, 66383>>, <<66427, 66431>>, <<66462, 66462>>,
    <<66500, 66503>>, <<66518, 66559>>, <<66718, 66719>>, <<66730, 66735>>,
    <<66772, 66775>>, <<66812, 66815>>, <<66856, 66863>>, <<66916, 66926>>,
    <<66939, 66939>>, <<66955, 66955>>, <<66963, 66963>>, <<66966, 66966>>,
    <<66978, 66978>>, <<66994, 66994>>, <<67002, 67002>>, <<67005, 67071>>,
    <<67383, 67391>>, <<67414, 67423>>, <<67432, 67455>>, <<67462, 67462>>,
    <<67505, 67505>>, <<67515, 67583>>, <<67590, 67591>>, <<67593, 67593>>,
    <<67638, 67638>>, <<67641, 67643>>, <<67645, 67646>>, <<67670, 67670>>,
    <<67743, 67750>>, <<67760, 67807>>, <<67827, 67827>>, <<67830, 67834>>,
    <<67868, 67870>>, <<67898, 67902>>, <<67904, 67967>>, <<68024, 68027>>,
    <<68048, 68049>>, <<68100, 68100>>, <<68103, 68107>>, <<68116, 68116>>,
    <<68120, 68120>>, <<68150, 68151>>, <<68155, 68158>>, <<68169, 68175>>,
    <<68185, 68191>>, <<68256, 68287>>, <<68327, 68330>>, <<68343, 68351>>,
    <<68406, 68408>>, <<68438, 68439>>, <<68467, 68471>>, <<68498, 68504>>,
    <<68509, 68520>>, <<68528, 68607>>, <<68681, 68735>>, <<68787, 68799>>,
    <<68851, 68857>>, <<68904, 68911>>, <<68922, 69215>>, <<69247, 69247>>,
    <<69290, 69290>>, <<69294, 69295>>, <<69298, 69375>>, <<69416, 69423>>,
    <<69466, 69487>>, <<69514, 69551>>, <<69580, 69599>>, <<69623, 69631>>,
    <<69710, 69713>>, <<69750, 69758>>, <<69821, 69821>>, <<69827, 69839>>,
    <<69865, 69871>>, <<69882, 69887>>, <<69941, 69941>>, <<69960, 69967>>,
    <<70007, 70015>>, <<70112, 70112>>, <<70133, 70143>>, <<70162, 70162>>,
    <<70207, 70271>>, <<70279, 70279>>, <<70281, 70281>>, <<70286, 70286>>,
    <<70302, 70302>>, <<70314, 70319>>, <<70379, 70383>>, <<70394, 70399>>,
    <<70404, 70404>>, <<70413, 70414>>, <<70417, 70418>>, <<70441, 70441>>,
    <<70449, 70449>>, <<70452, 70452>>, <<70458, 70458>>, <<70469, 70470>>,
    <<70473, 70474>>, <<70478, 70479>>, <<70481, 70486>>, <<70488, 70492>>,
    <<70500, 70501>>, <<70509, 70511>>, <<70517, 70655>>, <<70748, 70748>>,
    <<70754, 70783>>, <<70856, 70863>>, <<70874, 71039>>, <<71094, 71095>>,
    <<71134, 71167>>, <<71237, 71247>>, <<71258, 71263>>, <<71277, 71295>>,
    <<71354, 71359>>, <<71370, 71423>>, <<71451, 71452>>, <<71468, 71471>>,
    <<71495, 71679>>, <<71740, 71839>>, <<71923, 71934>>, <<71943, 71944>>,
    <<71946, 71947>>, <<71956, 71956>>, <<71959, 71959>>, <<71990, 71990>>,
    <<71993, 71994>>, <<72007, 72015>>, <<72026, 72095>>, <<72104, 72105>>,
    <<72152, 72153>>, <<72165, 72191>>, <<72264, 72271>>, <<72355, 72367>>,
    <<72441, 72703>>, <<72713, 72713>>, <<72759, 72759>>, <<72774, 72783>>,
    <<72813, 72815>>, <<72848, 72849>>, <<72872, 72872>>, <<72887, 72959>>,
    <<72967, 72967>>, <<72970, 72970>>, <<73015, 73017>>, <<73019, 73019>>,
    <<73022, 73022>>, <<73032, 73039>>, <<73050, 73055>>, <<73062, 73062>>,
    <<73065, 73065>>, <<73103, 73103>>, <<73106, 73106>>, <<73113, 73119>>,
    <<73130, 73439>>, <<73465, 73647>>, <<73649, 73663>>, <<73714, 73726>>,
    <<74650, 74751>>, <<74863, 74863>>, <<74869, 74879>>, <<75076, 77711>>,
    <<77811, 77823>>, <<78895, 82943>>, <<83527, 92159>>, <<92729, 92735>>,
    <<92767, 92767>>, <<92778, 92781>>, <<92863, 92863>>, <<92874, 92879>>,
    <<92910, 92911>>, <<92918, 92927>>, <<92998, 93007>>, <<93018, 93018>>,
    <<93026, 93026>>, <<93048, 93052>>, <<93072, 93759>>, <<93851, 93951>>,
    <<94027, 94030>>, <<94088, 94094>>, <<94112, 94175>>, <<94181, 94191>>,
    <<94194, 94207>>, <<100344, 100351>>, <<101590, 101631>>,
    <<101641, 110575>>, <<110580, 110580>>, <<110588, 110588>>,
    <<110591, 110591>>, <<110883, 110927>>, <<110931, 110947>>,
    <<110952, 110959>>, <<111356, 113663>>, <<113771, 113775>>,
    <<113789, 113791>>, <<113801, 113807>>, <<113818, 113819>>,
    <<113824, 118527>>, <<118574, 118575>>, <<118599, 118607>>,
    <<118724, 118783>>, <<119030, 119039>>, <<119079, 119080>>,
    <<119155, 119162>>, <<119275, 119295>>, <<119366, 119519>>,
    <<119540, 119551>>, <<119639, 119647>>, <<119673, 119807>>,
    <<119893, 119893>>, <<119965, 119965>>, <<119968, 119969>>,
    <<119971, 119972>>, <<119975, 119976>>, <<119981, 119981>>,
    <<119994, 119994>>, <<119996, 119996>>, <<120004, 120004>>,
    <<120070, 120070>>, <<120075, 120076>>, <<120085, 120085>>,
    <<120093, 120093>>, <<120122, 120122>>, <<120127, 120127>>,
    <<120133, 120133>>, <<120135, 120137>>, <<120145, 120145>>,
    <<120486, 120487>>, <<120780, 120781>>, <<121484, 121498>>,
    <<121504, 121504>>, <<121520, 122623>>, <<122655, 122879>>,
    <<122887, 122887>>, <<122905, 122906>>, <<122914, 122914>>,
    <<122917, 122917>>, <<122923, 123135>>, <<123181, 123183>>,
    <<123198, 123199>>, <<123210, 123213>>, <<123216, 123535>>,
    <<123567, 123583>>, <<123642, 123646>>, <<123648, 124895>>,
    <<124903, 124903>>, <<124908, 124908>>, <<124911, 124911>>,
    <<124927, 124927>>, <<125125, 125126>>, <<125143, 125183>>,
    <<125260, 125263>>, <<125274, 125277>>, <<125280, 126064>>,
    <<126133, 126208>>, <<126270, 126463>>, <<126468, 126468>>,
    <<126496, 126496>>, <<126499, 126499>>, <<126501, 126502>>,
    <<126504, 126504>>, <<126515, 126515>>, <<126520, 126520>>,
    <<126522, 126522>>, <<126524, 126529>>, <<126531, 126534>>,
    <<126536, 126536>>, <<126538, 126538>>, <<126540, 126540>>,
    <<126544, 126544>>, <<126547, 126547>>, <<126549, 126550>>,
    <<126552, 126552>>, <<126554, 126554>>, <<126556, 126556>>,
    <<126558, 126558>>, <<126560, 126560>>, <<126563, 126563>>,
    <<126565, 126566>>, <<126571, 126571>>, <<126579, 126579>>,
    <<126584, 126584>>, <<126589, 126589>>, <<126591, 126591>>,
    <<126602, 126602>>, <<126620, 126624>>, <<126628, 126628>>,
    <<126634, 126634>>, <<126652, 126703>>, <<126706, 126975>>,
    <<127020, 127023>>, <<127124, 127135>>, <<127151, 127152>>,
    <<127168, 127168>>, <<127184, 127184>>, <<127222, 127231>>,
    <<127406, 127461>>, <<127491, 127503>>, <<127548, 127551>>,
    <<127561, 127567>>, <<127570, 127583>>, <<127590, 127743>>,
    <<128728, 128732>>, <<128749, 128751>>, <<128765, 128767>>,
    <<128884, 128895>>, <<128985, 128991>>, <<129004, 129007>>,
    <<129009, 129023>>, <<129036, 129039>>, <<129096, 129103>>,
    <<129114, 129119>>, <<129160, 129167>>, <<129198, 129199>>,
    <<129202, 129279>>, <<129620, 129631>>, <<129646, 129647>>,
    <<129653, 129655>>, <<129661, 129663>>, <<129671, 129679>>,
    <<129709, 129711>>, <<129723, 129727>>, <<129734, 129743>>,
    <<129754, 129759>>, <<129768, 129775>>, <<129783, 129791>>,
    <<129939, 129939>>, <<129995, 130031>>, <<130042, 131071>>,
    <<173792, 173823>>, <<177977, 177983>>, <<178206, 178207>>,
    <<183970, 183983>>, <<191457, 194559>>, <<195102, 196607>>,
    <<201547, 917759>>, <<918000, 1114111>>>>

\* The code point of a character: of a surrogate pair the one it encodes.
CodePoint(c) ==
  LET Hex(i) == HexVal(SubSeq(c, i, i)) * 4096 + HexVal(SubSeq(c, i + 1, i + 1)) * 256
                  + HexVal(SubSeq(c, i + 2, i + 2)) * 16 + HexVal(SubSeq(c, i + 3, i + 3))
  IN IF Len(c) = 12 THEN 65536 + (Hex(3) - 55296) * 1024 + (Hex(9) - 56320)
     ELSE IF Len(c) = 6 THEN Hex(3)
     ELSE IF c = "\t" THEN 9
     ELSE IF c = "\n" THEN 10
     ELSE IF c = "\f" THEN 12
     ELSE IF c = "\r" THEN 13
     ELSE 31 + (CHOOSE i \in 1..Len(Ascii) : Ascii[i] = c)

\* What repr writes for one character of a str quoted with q: a character
\* that is not printable as \xNN, \uNNNN or \UNNNNNNNN, by its code point.
ReprChar(c, q) ==
  IF c = "\\" THEN <<"\\", "\\">>
  ELSE IF c = q THEN <<"\\", c>>
  ELSE IF c = "\t" THEN <<"\\", "t">>
  ELSE IF c = "\n" THEN <<"\\", "n">>
  ELSE IF c = "\r" THEN <<"\\", "r">>
  ELSE LET Digit(n, p) == HexDigits[((n \div p) % 16) + 1]
           Written(n) ==
             IF \A i \in 1..Len(NonPrintableRanges) :
                  n < NonPrintableRanges[i][1] \/ n > NonPrintableRanges[i][2]
             THEN <<c>>
             ELSE IF n < 256 THEN <<"\\", "x", Digit(n, 16), Digit(n, 1)>>
             ELSE IF n < 65536
             THEN <<"\\", "u", Digit(n, 4096), Digit(n, 256), Digit(n, 16), Digit(n, 1)>>
             ELSE <<"\\", "U", "0", "0", Digit(n, 1048576), Digit(n, 65536),
                    Digit(n, 4096), Digit(n, 256), Digit(n, 16), Digit(n, 1)>>
       IN Written(CodePoint(c))

RECURSIVE ReprChars(_, _, _)
ReprChars(s, i, q) ==
  IF i > Len(s) THEN <<>> ELSE ReprChar(s[i], q) \o ReprChars(s, i + 1, q)

\* repr(s) for a str: in single quotes, or in double quotes when it holds a
\* single quote and no double quote.
StrRepr(s) ==
  LET q == IF (\E i \in 1..Len(s) : s[i] = "'") /\ ~(\E i \in 1..Len(s) : s[i] = "\"")
           THEN "\"" ELSE "'"
  IN <<q>> \o ReprChars(s, 1, q) \o <<q>>

\* repr(v); the items of a dict in the order of its keys.
RECURSIVE PyRepr(_)
RECURSIVE ReprItems(_, _)
RECURSIVE ReprMembers(_, _)
ReprItems(l, i) ==
  IF i > Len(l) THEN <<>>
  ELSE (IF i > 1 THEN <<",", " ">> ELSE <<>>) \o PyRepr(l[i]) \o ReprItems(l, i + 1)

ReprMembers(v, i) ==
  IF i > Len(v.ks) THEN <<>>
  ELSE (IF i > 1 THEN <<",", " ">> ELSE <<>>) \o PyRepr(v.ks[i]) \o <<":", " ">>
         \o PyRepr(v.m[KeyOf(v.ks[i])]) \o ReprMembers(v, i + 1)

PyRepr(v) ==
  CASE v.t = "null" -> <<"N", "o", "n", "e">>
    [] v.t = "bool" -> IF v.b THEN <<"T", "r", "u", "e">> ELSE <<"F", "a", "l", "s", "e">>
    [] v.t = "num" -> IntText(v.n)
    [] v.t = "float" -> FloatRepr(v.lit)
    [] v.t = "str" -> StrRepr(v.s)
    [] v.t = "list" -> <<"[">> \o ReprItems(v.l, 1) \o <<"]">>
    [] v.t = "obj" -> <<"{">> \o ReprMembers(v, 1) \o <<"}">>

\* str(v): a str is itself, anything else its repr.
PyStr(v) == IF v.t = "str" THEN v.s ELSE PyRepr(v)

DictOk(m, ks) == [ok |-> TRUE, m |-> m, ks |-> ks, exc |-> ""]

DictFail(exc) == [ok |-> FALSE, m |-> EmptyMap, ks |-> <<>>, exc |-> exc]

\* What iterating a value gives, for an element of a sequence of pairs: a
\* list its items, a str its characters, a dict its keys; ok is FALSE for a
\* value that is not iterable.
IterOf(v) ==
  CASE v.t = "list" -> [ok |-> TRUE, n |-> Len(v.l), l |-> v.l]
    [] v.t = "str" -> [ok |-> TRUE, n |-> Len(v.s), l |-> [i \in 1..Len(v.s) |-> JStr(<<v.s[i]>>)]]
    [] v.t = "obj" -> [ok |-> TRUE, n |-> Len(v.ks), l |-> v.ks]
    [] OTHER -> [ok |-> FALSE, n |-> 0, l |-> <<>>]

\* dict(seq) from element i on: each element must be iterable (TypeError),
\* of length 2 (ValueError), with a hashable first item (TypeError).  A key
\* that is there already keeps its place, and its first form, and takes the
\* later value.
RECURSIVE DictFromPairs(_, _, _, _)
DictFromPairs(l, i, m, ks) ==
  IF i > Len(l) THEN DictOk(m, ks)
  ELSE LET Put(it, k) ==
             DictFromPairs(l, i + 1, MapPut(m, k, it.l[2]),
                           IF k \in DOMAIN m THEN ks ELSE Append(ks, it.l[1]))
           Pair(it) ==
             IF ~it.ok THEN DictFail("TypeError")
             ELSE IF it.n # 2 THEN DictFail("ValueError")
             ELSE IF it.l[1].t \in {"list", "obj"} THEN DictFail("TypeError")
             ELSE Put(it, KeyOf(it.l[1]))
       IN Pair(IterOf(l[i]))

\* dict(v) / Result(v) for a decoded body: a mapping is copied, a list or a
\* str is read as a sequence of pairs, a scalar is not iterable (TypeError).
DictOf(v) ==
  CASE v.t = "obj" -> DictOk(v.m, v.ks)
    [] v.t = "list" -> DictFromPairs(v.l, 1, EmptyMap, <<>>)
    [] v.t = "str" -> DictFromPairs(IterOf(v).l, 1, EmptyMap, <<>>)
    [] OTHER -> DictFail("TypeError")

\* Response.raise_for_status(): HTTPError for a 4xx or 5xx status.
RaisesForStatus(status) == 400 <= status /\ status < 600

\* open(file, "r").read(): the text of a regular file.
ReadFile(file) ==
  CASE file.kind = "missing" -> Raise("FileNotFoundError", <<>>)
    [] file.kind = "dir" -> Raise("IsADirectoryError", <<>>)
    [] OTHER -> Return(JStr(file.text))

sBearer == <<"B", "e", "a", "r", "e", "r", " ">>

\* The headers both classes put on their session.
AuthHeaders(tok) ==
  ("Authorization" :> (sBearer \o tok)) @@ ("X-Github-Next-Global-ID" :> <<"1">>)

\* The headers of a fresh requests.Session(): requests.utils.default_headers()
\* (requests 2.31.0, without the optional brotli and zstandard codecs).
DefaultHeaders ==
  ("User-Agent" :> <<"p", "y", "t", "h", "o", "n", "-", "r", "e", "q", "u", "e",
                     "s", "t", "s", "/", "2", ".", "3", "1", ".", "0">>)
    @@ ("Accept-Encoding" :> <<"g", "z", "i", "p", ",", " ", "d", "e", "f", "l",
                               "a", "t", "e">>)
    @@ ("Accept" :> <<"*", "/", "*">>)
    @@ ("Connection" :> <<"k", "e", "e", "p", "-", "a", "l", "i", "v", "e">>)

\* headers.update(u)
Update(h, u) == u @@ h

(***************************************************************************)
(* The inputs of the transport model.                                      *)
(***************************************************************************)
\* A response with data only: {"data":{"a":1}}
bData ==
  <<"{", "\"", "d", "a", "t", "a", "\"", ":", "{", "\"", "a", "\"", ":", "1",
     "}", "}">>

\* A response with one error: {"errors":[{"message":"boom"}]}
bErrors ==
  <<"{", "\"", "e", "r", "r", "o", "r", "s", "\"", ":", "[", "{", "\"", "m",
     "e", "s", "s", "a", "g", "e", "\"", ":", "\"", "b", "o", "o", "m", "\"",
     "}", "]", "}">>

\* An error object without a message: {"errors":[{}]}
bNoMessage ==
  <<"{", "\"", "e", "r", "r", "o", "r", "s", "\"", ":", "[", "{", "}", "]",
     "}">>

\* An errors key with an empty list: {"errors":[]}
bEmptyErrors ==
  <<"{", "\"", "e", "r", "r", "o", "r", "s", "\"", ":", "[", "]", "}">>

\* A body that is not JSON: <html>
bHtml ==
  <<"<", "h", "t", "m", "l", ">">>

\* A JSON body that is an empty list: []
bList ==
  <<"[", "]">>

Bodies == {bData, bErrors, bNoMessage, bEmptyErrors, bHtml, bList}

\* What the server answers to a post: an HTTP status and a body, with what
\* Response.json() makes of the body (json.loads of its text).
Reply(status, body) == [status |-> status, body |-> body, json |-> Loads(body)]

Replies ==
  {Reply(a[1], a[2]) : a \in ({200} \X Bodies) \cup ({404} \X {bErrors, bHtml})
                                \cup {<<300, bErrors>>}}

\* req.json(): the decoded body, or JSONDecodeError when ok is FALSE.
ReplyJson(reply) == reply.json

Tokens == {<<>>, <<"f", "o", "o", "b", "a", "r">>}

\* The keyword arguments of a constructor or of a query call.
NoKwargs == [k \in {} |-> JNull]

KwargsValues == {NoKwargs} \cup {RaiseOnError :> JBool(b) : b \in BOOLEAN}

\* The query texts passed to query, and the texts of the query files.
Queries == {<<"{", "a", "}">>}

FileTexts == {sFoo}

VariablesValues == {JNull, Obj1(<<"n">>, JNum(1))}

\* What a file name may name: a regular file with a query, nothing, a directory.
Files ==
  {[kind |-> "regular", text |-> q] : q \in FileTexts}
    \cup {[kind |-> "missing", text |-> <<>>], [kind |-> "dir", text |-> <<>>]}

(***************************************************************************)
(* ghgql.GithubGraphQL and githubgraphql.GithubGraphQL.                    *)
(***************************************************************************)
\* ghgql: __init__ sets the headers; githubgraphql: __init__ leaves the
\* session's own.
InitHeaders(v, tok) ==
  IF v = "ghgql" THEN Update(DefaultHeaders, AuthHeaders(tok)) ELSE DefaultHeaders

\* ghgql: __enter__ returns self; githubgraphql: __enter__ sets the headers.
EnterHeaders(v, h, tok) ==
  IF v = "githubgraphql" THEN Update(h, AuthHeaders(tok)) ELSE h

\* Session.close(): the session's connections are released; closed says that
\* nothing was posted since.
SessionClose(c) == TRUE

\* An __exit__ that closes the session only when the block ended cleanly.
ExitScopeCleanOnly(c, exc) == IF exc = "" THEN SessionClose(c) ELSE c

\* __exit__(exc_type, exc_value, traceback): self.close(), whatever exc_type is.
ExitScope(c, exc) == SessionClose(c)

\* A lookup that lets the instance-level flag win when it was set.
EffectiveRaiseInstanceFirst(kwargs, flag) ==
  IF flag # JNull THEN flag ELSE KwGet(kwargs, RaiseOnError, flag)

\* The flag a ghgql query call uses: kwargs.get('raise_on_error', self.__raise_on_error).
EffectiveRaise(kwargs, flag) == KwGet(kwargs, RaiseOnError, flag)

\* ghgql query: whether the decoded response makes the call raise.
RaisesOnErrors(res, kwargs, flag) ==
  sErrors \in DOMAIN res /\ Truthy(EffectiveRaise(kwargs, flag))

\* ghgql.GithubGraphQL.query after the post returned reply.
QueryResult(reply, kwargs, flag) ==
  IF RaisesForStatus(reply.status) THEN Raise("HTTPError", <<>>)
  ELSE IF ~ReplyJson(reply).ok THEN Raise("JSONDecodeError", <<>>)
  ELSE LET Checked(d) ==
             IF ~d.ok THEN Raise(d.exc, <<>>)
             ELSE IF RaisesOnErrors(d.m, kwargs, flag)
             THEN Raise("RuntimeError", PyStr(FncGetFirstMessage(d.m, JStr(sGraphQLError))))
             ELSE Return(JObj(d.m, d.ks))
       IN Checked(DictOf(ReplyJson(reply).v))

\* githubgraphql.GithubGraphQL.__query after the post returned reply.
OldQueryResult(reply) ==
  IF RaisesForStatus(reply.status) THEN Raise("HTTPError", <<>>)
  ELSE IF ~ReplyJson(reply).ok THEN Raise("JSONDecodeError", <<>>)
  ELSE LET Wrapped(d) == IF ~d.ok THEN Raise(d.exc, <<>>) ELSE Return(JObj(d.m, d.ks))
       IN Wrapped(DictOf(ReplyJson(reply).v))

\* The number of requests one transport posts.
MaxPosts == 2

VARIABLES result, call, outcome, ncalls

VARIABLES variant, token, raiseFlag, headers, closed, scope, exitExc, nposts,
          tcall, toutcome, sent

rvars == <<result, call, outcome, ncalls>>

tvars == <<variant, token, raiseFlag, headers, closed, scope, exitExc, nposts,
           tcall, toutcome, sent>>

vars == <<result, call, outcome, ncalls, variant, token, raiseFlag, headers,
          closed, scope, exitExc, nposts, tcall, toutcome, sent>>

NoCall == [op |-> "none", key |-> <<>>, hasDefault |-> FALSE, default |-> JNull]

NoOutcome == [kind |-> "none", exc |-> "", msg |-> <<>>, value |-> JNull]

NoFile == [kind |-> "none", text |-> <<>>]

NoReply == [status |-> 0, body |-> <<>>, json |-> ParseFail]

NoTCall ==
  [op |-> "none", query |-> <<>>, file |-> NoFile, variables |-> JNull,
   kwargs |-> NoKwargs, reply |-> NoReply]

NoRequest == [headers |-> [h \in {} |-> <<>>], query |-> <<>>, variables |-> JNull]

(***************************************************************************)
(* Result: construction and the calls on it.                               *)
(***************************************************************************)
\* Result(mapping): the dict holds the mapping's items.
InitResult ==
  /\ result \in Responses
  /\ call = NoCall
  /\ outcome = NoOutcome
  /\ ncalls = 0

\* result.get(key) or result.get(key, default=d); default is None when not passed.
GetCall(key, hasDefault, d) ==
  /\ ncalls < MaxCalls
  /\ call' = [op |-> "get", key |-> key, hasDefault |-> hasDefault, default |-> d]
  /\ outcome' = Get(result, key, d)
  /\ ncalls' = ncalls + 1
  /\ result' = SelfAfterGet(result, key, d)
  /\ UNCHANGED tvars

\* result.data
DataCall ==
  /\ ncalls < MaxCalls
  /\ call' = [NoCall EXCEPT !.op = "data"]
  /\ outcome' = Return(Data(result))
  /\ ncalls' = ncalls + 1
  /\ UNCHANGED result
  /\ UNCHANGED tvars

\* result.errors
ErrorsCall ==
  /\ ncalls < MaxCalls
  /\ call' = [NoCall EXCEPT !.op = "errors"]
  /\ outcome' = Return(Errors(result))
  /\ ncalls' = ncalls + 1
  /\ UNCHANGED result
  /\ UNCHANGED tvars

ResultNext ==
  \/ \E key \in Paths : \E d \in Defaults : GetCall(key, TRUE, d)
  \/ \E key \in Paths : GetCall(key, FALSE, JNull)
  \/ DataCall
  \/ ErrorsCall

(***************************************************************************)
(* The transport: construction, the scope, close and the query calls.      *)
(***************************************************************************)
\* GithubGraphQL(token=tok, **kw); only ghgql's constructor takes keyword
\* arguments beside token and endpoint.
InitTransport ==
  /\ variant \in {"ghgql", "githubgraphql"}
  /\ token \in Tokens
  /\ \E kw \in KwargsValues :
       /\ variant = "githubgraphql" => kw = NoKwargs
       /\ raiseFlag = KwGet(kw, RaiseOnError, JNull)
  /\ headers = InitHeaders(variant, token)
  /\ closed = FALSE
  /\ scope = "none"
  /\ exitExc = ""
  /\ nposts = 0
  /\ tcall = NoTCall
  /\ toutcome = NoOutcome
  /\ sent = NoRequest

\* with transport as g: -- __enter__
Enter ==
  /\ scope # "entered"
  /\ scope' = "entered"
  /\ headers' = EnterHeaders(variant, headers, token)
  /\ tcall' = [NoTCall EXCEPT !.op = "enter"]
  /\ toutcome' = NoOutcome
  /\ UNCHANGED <<variant, token, raiseFlag, closed, exitExc, nposts, sent>>
  /\ UNCHANGED rvars

\* The with block ends without an exception: __exit__(None, None, None).
ExitNormal ==
  /\ scope = "entered"
  /\ scope' = "exited"
  /\ exitExc' = ""
  /\ closed' = ExitScope(closed, "")
  /\ tcall' = [NoTCall EXCEPT !.op = "exit"]
  /\ toutcome' = NoOutcome
  /\ UNCHANGED <<variant, token, raiseFlag, headers, nposts, sent>>
  /\ UNCHANGED rvars

\* An exception leaves the with block in a step of the block's own: one its
\* code raises (ZeroDivisionError stands for the classes no call here
\* raises), or one of an earlier call that it held (in a finally or an
\* except clause, where it may have closed the session) and raises again.
\* __exit__(exc_type, exc_value, traceback) runs.
RaiseInScope(exc) ==
  /\ scope = "entered"
  /\ scope' = "exited"
  /\ exitExc' = exc
  /\ closed' = ExitScope(closed, exc)
  /\ tcall' = [NoTCall EXCEPT !.op = "exit"]
  /\ toutcome' = NoOutcome
  /\ UNCHANGED <<variant, token, raiseFlag, headers, nposts, sent>>
  /\ UNCHANGED rvars

\* transport.close()
Close ==
  /\ closed' = SessionClose(closed)
  /\ tcall' = [NoTCall EXCEPT !.op = "close"]
  /\ toutcome' = NoOutcome
  /\ UNCHANGED <<variant, token, raiseFlag, headers, scope, exitExc, nposts, sent>>
  /\ UNCHANGED rvars

\* Whether the with block holds the exception of a call that ends as out (it
\* catches it, or runs a finally clause before it goes on); a call that
\* returns raises nothing to hold, and outside a with block there is no scope
\* for an exception to leave.
Handlers(out) == IF scope = "entered" /\ out.kind = "raise" THEN BOOLEAN ELSE {TRUE}

\* What a call's outcome does to the scope: an exception that the with block
\* does not hold leaves it at once, and the with statement runs __exit__.
\* c is whether the session is closed when the call ends.
AfterCall(out, caught, c) ==
  IF out.kind = "raise" /\ scope = "entered" /\ ~caught
  THEN /\ scope' = "exited"
       /\ exitExc' = out.exc
       /\ closed' = ExitScope(c, out.exc)
  ELSE /\ closed' = c
       /\ UNCHANGED <<scope, exitExc>>

\* self.__session.post(url, json={"query": q, "variables": v}): the request
\* carries the session's headers; the session holds a connection afterwards.
Post(q, v) ==
  /\ sent' = [headers |-> headers, query |-> q, variables |-> v]
  /\ nposts' = nposts + 1

\* ghgql: transport.query(q, v, **kw), the server answering reply.
QueryCall(q, v, kw, reply, caught) ==
  /\ variant = "ghgql"
  /\ nposts < MaxPosts
  /\ Post(q, v)
  /\ tcall' = [op |-> "query", query |-> q, file |-> NoFile, variables |-> v,
               kwargs |-> kw, reply |-> reply]
  /\ \E out \in {QueryResult(reply, kw, raiseFlag)} :
       /\ toutcome' = out
       /\ AfterCall(out, caught, FALSE)
  /\ UNCHANGED <<variant, token, raiseFlag, headers>>
  /\ UNCHANGED rvars

\* A query_from_file that does not pass its keyword arguments on.
FileQueryDropsOptions(v, reply, kw, flag) ==
  IF v = "ghgql" THEN QueryResult(reply, NoKwargs, flag) ELSE OldQueryResult(reply)

\* What query_from_file returns or raises once the file was read as text q.
FileQueryResult(v, reply, kw, flag) ==
  IF v = "ghgql" THEN QueryResult(reply, kw, flag) ELSE OldQueryResult(reply)

\* transport.query_from_file(file, v, **kw): the file is read, then the query
\* is posted; githubgraphql's method takes no keyword arguments.
QueryFromFileCall(file, v, kw, reply, caught) ==
  /\ variant = "githubgraphql" => kw = NoKwargs
  /\ nposts < MaxPosts
  /\ IF ReadFile(file).kind = "raise"
     THEN /\ tcall' = [op |-> "query_from_file", query |-> <<>>, file |-> file,
                       variables |-> v, kwargs |-> kw, reply |-> NoReply]
          /\ toutcome' = ReadFile(file)
          /\ AfterCall(ReadFile(file), caught, closed)
          /\ UNCHANGED <<nposts, sent>>
     ELSE /\ Post(ReadFile(file).value.s, v)
          /\ tcall' = [op |-> "query_from_file", query |-> ReadFile(file).value.s,
                       file |-> file, variables |-> v, kwargs |-> kw,
                       reply |-> reply]
          /\ \E out \in {FileQueryResult(variant, reply, kw, raiseFlag)} :
               /\ toutcome' = out
               /\ AfterCall(out, caught, FALSE)
  /\ UNCHANGED <<variant, token, raiseFlag, headers>>
  /\ UNCHANGED rvars

TransportNext ==
  \/ Enter
  \/ ExitNormal
  \/ \E exc \in {"ZeroDivisionError", "FileNotFoundError", "IsADirectoryError",
                  "HTTPError", "JSONDecodeError", "RuntimeError"} : RaiseInScope(exc)
  \/ Close
  \/ \E q \in Queries, v \in VariablesValues, kw \in KwargsValues,
        reply \in Replies :
          \E caught \in Handlers(QueryResult(reply, kw, raiseFlag)) :
            QueryCall(q, v, kw, reply, caught)
  \/ \E file \in Files, v \in VariablesValues, kw \in KwargsValues :
       \* no request is posted, and no reply comes, when the read fails
       IF ReadFile(file).kind = "raise"
       THEN \E caught \in Handlers(ReadFile(file)) :
              QueryFromFileCall(file, v, kw, NoReply, caught)
       ELSE \E reply \in Replies :
              \E caught \in Handlers(FileQueryResult(variant, reply, kw, raiseFlag)) :
                QueryFromFileCall(file, v, kw, reply, caught)

(***************************************************************************)
(* Two specifications: a Result and the calls on it, with no transport in  *)
(* use; and a transport, with no Result under inspection.                  *)
(***************************************************************************)
NoTransport ==
  /\ variant = "ghgql"
  /\ token = <<>>
  /\ raiseFlag = JNull
  /\ headers = InitHeaders("ghgql", <<>>)
  /\ closed = FALSE
  /\ scope = "none"
  /\ exitExc = ""
  /\ nposts = 0
  /\ tcall = NoTCall
  /\ toutcome = NoOutcome
  /\ sent = NoRequest

NoResult ==
  /\ result = EmptyMap
  /\ call = NoCall
  /\ outcome = NoOutcome
  /\ ncalls = 0

Init == InitResult /\ NoTransport

Next == ResultNext

Spec == Init /\ [][Next]_vars

TransportInit == NoResult /\ InitTransport

TransportSpec == TransportInit /\ [][TransportNext]_vars

(***************************************************************************)
(* What the claims speak of, stated apart from the code's operators.       *)
(***************************************************************************)
sId2 == sId \o <<"2">>

sNu == <<"n", "u">>

\* The non-empty segments the model's paths are made of.
Segments == {sStatus, sItem, sId, sId2, sFoo, sBar, sNu}

\* Every list of one to three segments.
SegmentLists == UNION {[1..n -> Segments] : n \in 1..3}

\* The dotted path of a list of segments.
RECURSIVE Join(_)
Join(segs) ==
  IF Len(segs) = 1 THEN segs[1] ELSE segs[1] \o <<".">> \o Join(Tail(segs))

\* A path expression without an empty segment: not empty, no leading, trailing
\* or doubled dot.
ValidPath(key) ==
  /\ key # <<>>
  /\ key[1] # "."
  /\ key[Len(key)] # "."
  /\ \A i \in 1..(Len(key) - 1) : ~(key[i] = "." /\ key[i + 1] = ".")

\* Every segment is a key of the mapping reached so far.
RECURSIVE ResolvesThroughMappings(_, _)
ResolvesThroughMappings(v, segs) ==
  \/ segs = <<>>
  \/ /\ v.t = "obj"
     /\ Head(segs) \in DOMAIN v.m
     /\ ResolvesThroughMappings(v.m[Head(segs)], Tail(segs))

\* The value at the end of a path that resolves through mappings.
RECURSIVE NestedValue(_, _)
NestedValue(v, segs) ==
  IF segs = <<>> THEN v ELSE NestedValue(v.m[Head(segs)], Tail(segs))

\* Descending through mappings, some segment is not a key of the mapping
\* reached so far.
RECURSIVE MissesInMapping(_, _)
MissesInMapping(v, segs) ==
  /\ segs # <<>>
  /\ v.t = "obj"
  /\ \/ Head(segs) \notin DOMAIN v.m
     \/ MissesInMapping(v.m[Head(segs)], Tail(segs))

\* Descending the segments, some segment is not a key of the cursor: the
\* cursor is a mapping without it, or no mapping at all.  A str other than
\* "null" that is JSON stands for what it decodes to.
RECURSIVE MissesAtCursor(_, _)
MissesAtCursor(v, segs) ==
  LET At(c) == \/ c.t # "obj"
               \/ Head(segs) \notin DOMAIN c.m
               \/ MissesAtCursor(c.m[Head(segs)], Tail(segs))
      Decoded(r) == IF r.ok THEN At(r.v) ELSE At(v)
  IN /\ segs # <<>>
     /\ IF v.t = "str" /\ v.s # NullText THEN Decoded(Loads(v.s)) ELSE At(v)

\* The errors of the specification, as the classes the tests expect:
\* ResponseErrorsPresent and NoDataError are RuntimeErrors, InvalidPathError
\* and PathNotFoundError are KeyErrors.
RaisesRuntimeError(out) == out.kind = "raise" /\ out.exc = "RuntimeError"

RaisesKeyError(out) == out.kind = "raise" /\ out.exc = "KeyError"

\* The last call was get on a response without an errors key and with data.
GetOnDataWithoutErrors ==
  /\ call.op = "get"
  /\ sErrors \notin DOMAIN result
  /\ sData \in DOMAIN result

(***************************************************************************)
(* The claims.                                                             *)
(***************************************************************************)
\* C1: on a response without errors, a valid path whose segments all resolve
\* through nested mappings under data makes get return exactly the nested
\* value, with or without a default.
C1_GetReturnsNestedValue ==
  GetOnDataWithoutErrors =>
    \A segs \in SegmentLists :
      (call.key = Join(segs) /\ ResolvesThroughMappings(result[sData], segs))
        => outcome = Return(NestedValue(result[sData], segs))

\* C1, reached: get("status.item.id", default=42) on the tests' data returned
\* "123" and not the default.
C1_Witness ==
  /\ call.op = "get"
  /\ call.key = Join(<<sStatus, sItem, sId>>)
  /\ call.hasDefault
  /\ call.default = JNum(42)
  /\ result = Map1(sData, FixtureData)
  /\ outcome = Return(JStr(<<"1", "2", "3">>))

\* C2: get on a response with an errors key always fails with
\* ResponseErrorsPresent, whatever the path, the default and data are.
C2_ErrorsPresentAlwaysRaises ==
  (call.op = "get" /\ sErrors \in DOMAIN result) => RaisesRuntimeError(outcome)

\* C3: with data, without errors and without a default, a valid path with a
\* segment that is not a key of the mapping reached makes get fail with
\* PathNotFoundError; it does not return None.
C3_UnresolvedWithoutDefaultRaises ==
  (GetOnDataWithoutErrors /\ ~call.hasDefault) =>
    \A segs \in SegmentLists :
      (call.key = Join(segs) /\ MissesInMapping(result[sData], segs))
        => RaisesKeyError(outcome)

\* C4: with data, without errors and with a default, a valid path with a
\* segment that is not a key of the cursor makes get return the default,
\* whatever the cursor is and whatever segments follow the unresolved one.
C4_UnresolvedWithDefaultReturnsDefault ==
  (GetOnDataWithoutErrors /\ call.hasDefault) =>
    \A segs \in SegmentLists :
      (call.key = Join(segs) /\ MissesAtCursor(result[sData], segs))
        => outcome = Return(call.default)

\* C5: get with a valid path on a response without errors whose data is absent
\* or null fails with NoDataError when no default is passed and returns the
\* default when one is.
C5_EmptyResponse ==
  ( /\ call.op = "get"
    /\ ValidPath(call.key)
    /\ sErrors \notin DOMAIN result
    /\ (sData \notin DOMAIN result \/ result[sData] = JNull) ) =>
    IF call.hasDefault THEN outcome = Return(call.default)
    ELSE RaisesRuntimeError(outcome)

\* C6: get with a path that has an empty segment always fails with
\* InvalidPathError, with or without a default.
C6_InvalidPathAlwaysRaises ==
  (call.op = "get" /\ ~ValidPath(call.key)) => RaisesKeyError(outcome)

\* The last call posted a query on a ghgql transport and the server answered
\* with a success status and a body that decodes to a mapping.
GhgqlAnswered ==
  /\ variant = "ghgql"
  /\ tcall.op \in {"query", "query_from_file"}
  /\ tcall.reply.status = 200
  /\ tcall.reply.json.ok
  /\ tcall.reply.json.v.t = "obj"

\* The decoded response of the last call.
Answer == tcall.reply.json.v.m

\* Raise-on-error as the claims define it: the per-call value when one is
\* given, the instance-level value flag otherwise.
RaiseEnabled(kwargs, flag) ==
  IF RaiseOnError \in DOMAIN kwargs THEN kwargs[RaiseOnError] = JBool(TRUE)
  ELSE flag = JBool(TRUE)

\* The response holds a non-empty errors list.
NonEmptyErrors(res) ==
  /\ sErrors \in DOMAIN res
  /\ res[sErrors].t = "list"
  /\ res[sErrors].l # <<>>

\* The first error's message, or the generic message when it has none.
FirstMessageOrGeneric(res) ==
  IF res[sErrors].l[1].t = "obj" /\ sMessage \in DOMAIN res[sErrors].l[1].m
  THEN res[sErrors].l[1].m[sMessage].s
  ELSE sGraphQLError

\* C7: with raise-on-error enabled, query fails with GraphQLError (the tests'
\* RuntimeError) exactly when the decoded response holds a non-empty errors
\* list, with the first error's message or the generic one; a response whose
\* errors list is empty or absent is returned.
C7_RaisesExactlyOnNonEmptyErrors ==
  (GhgqlAnswered /\ RaiseEnabled(tcall.kwargs, raiseFlag)) =>
    IF NonEmptyErrors(Answer)
    THEN toutcome = Raise("RuntimeError", FirstMessageOrGeneric(Answer))
    ELSE toutcome = Return(tcall.reply.json.v)

\* C8: a query call that is answered with errors raises exactly when the
\* per-call raise_on_error is true or, none being given, the instance-level
\* flag is; and no call changes the instance-level flag, so an override holds
\* for its own call only.
C8_PerCallOverridesInstance ==
  [][ /\ raiseFlag' = raiseFlag
      /\ (GhgqlAnswered' /\ NonEmptyErrors(Answer'))
           => (toutcome'.kind = "raise" <=> RaiseEnabled(tcall'.kwargs, raiseFlag)) ]_vars

\* C8, reached: on a transport constructed with raise_on_error=True, a call
\* with raise_on_error=False returned the response with its errors.
C8_Witness ==
  /\ GhgqlAnswered
  /\ raiseFlag = JBool(TRUE)
  /\ tcall.kwargs = (RaiseOnError :> JBool(FALSE))
  /\ NonEmptyErrors(Answer)
  /\ toutcome = Return(tcall.reply.json.v)

\* C9: every step that leaves the scope leaves the session closed: a normal
\* exit, the exception of a call made inside the scope, and an exception the
\* block raises itself, whether or not the session was closed before.
C9_SessionClosedOnEveryExit ==
  [][(scope = "entered" /\ scope' = "exited") => closed']_vars

\* C9, reached: the scope was left by the RuntimeError of a query with
\* raise-on-error, and the session is closed.
C9_Witness ==
  /\ scope = "exited"
  /\ exitExc = "RuntimeError"
  /\ nposts > 0
  /\ closed

\* Both headers are present with the values the constructor was given.
CarriesBothHeaders(h) ==
  /\ "Authorization" \in DOMAIN h
  /\ h["Authorization"] = sBearer \o token
  /\ "X-Github-Next-Global-ID" \in DOMAIN h
  /\ h["X-Github-Next-Global-ID"] = <<"1">>

\* C10: the session headers hold Authorization: Bearer <token> and
\* X-Github-Next-Global-ID: 1 from construction onward, so that every request
\* posted carries both, whether or not a scope was entered.
C10_EveryRequestCarriesBothHeaders ==
  nposts > 0 => CarriesBothHeaders(sent.headers)

\* The last call read a query file on either transport.
FileQueried == tcall.op = "query_from_file"

\* The error open() raises for what the file name names.
FileError(file) ==
  IF file.kind = "missing" THEN Raise("FileNotFoundError", <<>>)
  ELSE Raise("IsADirectoryError", <<>>)

\* What query gives for the same reply and options: ghgql's query, or the
\* private __query of githubgraphql, which takes no options.
AsQuery(v, reply, kwargs, flag) ==
  IF v = "ghgql" THEN QueryResult(reply, kwargs, flag) ELSE OldQueryResult(reply)

\* C11: query_from_file on a path that is no regular file fails with the file
\* error of its kind and posts nothing; on a readable file it posts the file's
\* text with the same variables and ends as query ends with the same options.
C11_FileQueryFailsOrActsAsQuery ==
  [][ FileQueried' =>
        IF tcall'.file.kind # "regular"
        THEN /\ toutcome' = FileError(tcall'.file)
             /\ nposts' = nposts
             /\ sent' = sent
        ELSE /\ nposts' = nposts + 1
             /\ sent' = [headers |-> headers, query |-> tcall'.file.text,
                         variables |-> tcall'.variables]
             /\ toutcome' = AsQuery(variant, tcall'.reply, tcall'.kwargs, raiseFlag) ]_vars

\* C11, reached: on a transport constructed without the flag,
\* query_from_file(file, raise_on_error=True) on a readable file, answered
\* with one error, raised the error's message as query does.
C11_Witness ==
  /\ FileQueried
  /\ variant = "ghgql"
  /\ raiseFlag = JNull
  /\ tcall.file.kind = "regular"
  /\ tcall.kwargs = (RaiseOnError :> JBool(TRUE))
  /\ tcall.reply = Reply(200, bErrors)
  /\ sent.query = tcall.file.text
  /\ toutcome = Raise("RuntimeError", sBoom)

\* C12: data returns the value under the key data, and None when the key is
\* missing; errors does the same for the key errors; neither raises.
C12_AccessorsReturnStoredOrNone ==
  /\ call.op = "data" =>
       outcome = Return(IF sData \in DOMAIN result THEN result[sData] ELSE JNull)
  /\ call.op = "errors" =>
       outcome = Return(IF sErrors \in DOMAIN result THEN result[sErrors] ELSE JNull)

\* C12, reached: data read on a response that holds data and errors gave the
\* data sub-mapping.
C12_Witness ==
  /\ call.op = "data"
  /\ result = Map2(sData, FixtureData, sErrors, ErrorsValue)
  /\ outcome = Return(FixtureData)

\* C13: no call changes the wrapped mapping, whether get returns a value,
\* returns the default or fails, and also when it decoded a str on the way.
C13_GetNeverMutates ==
  [][result' = result]_vars

\* C13, reached: a second call was made, a get that decoded the JSON-encoded
\* str under status.item, and the mapping still holds the str.
C13_Witness ==
  /\ ncalls = 2
  /\ call.op = "get"
  /\ call.key = Join(<<sStatus, sItem, sId>>)
  /\ result = Map1(sData, UnderStatus(Obj1(sItem, JStr(sEncodedItem))))
  /\ outcome = Return(JNum(7))

\* C14: get checks the path first, then errors, then data: on a response with
\* errors an invalid path fails with InvalidPathError, and a valid path fails
\* with ResponseErrorsPresent also when there is no data and a default.
C14_ChecksInOrder ==
  (call.op = "get" /\ sErrors \in DOMAIN result) =>
    IF ValidPath(call.key) THEN RaisesRuntimeError(outcome)
    ELSE RaisesKeyError(outcome)

\* The first n segments.
Prefix(segs, n) == SubSeq(segs, 1, n)

\* The segments after the first n.
Rest(segs, n) == SubSeq(segs, n + 1, Len(segs))

\* The first n segments resolve through mappings under v to the value c.
Reaches(v, segs, n, c) ==
  /\ ResolvesThroughMappings(v, Prefix(segs, n))
  /\ NestedValue(v, Prefix(segs, n)) = c

\* The str values the model's data holds somewhere.
StrCursors == {v \in StatusValues : v.t = "str"} \cup {JStr(sEncodedItem)}

\* C15: a str cursor other than "null" with a segment left is decoded and the
\* segment is looked up in the decoded mapping; a str reached by the last
\* segment is returned undecoded; the str "null" is looked up undecoded.
C15_StrCursorDecodedBeforeLookup ==
  GetOnDataWithoutErrors =>
    \A segs \in SegmentLists : \A n \in 1..Len(segs) : \A c \in StrCursors :
      (call.key = Join(segs) /\ Reaches(result[sData], segs, n, c)) =>
        /\ n = Len(segs) => outcome = Return(c)
        /\ (n < Len(segs) /\ c.s # NullText /\ Loads(c.s).ok
              /\ Loads(c.s).v.t = "obj") =>
             IF ResolvesThroughMappings(Loads(c.s).v, Rest(segs, n))
             THEN outcome = Return(NestedValue(Loads(c.s).v, Rest(segs, n)))
             ELSE Head(Rest(segs, n)) \notin DOMAIN Loads(c.s).v.m
                    => outcome = Return(call.default)
        /\ (n < Len(segs) /\ c.s = NullText
              /\ ~IsSubstr(Head(Rest(segs, n)), NullText)) =>
             outcome = Return(call.default)

\* C15, reached: get("status.item.id") without a default, where status.item
\* is the str '{"id": 7}', returned 7.
C15_Witness ==
  /\ GetOnDataWithoutErrors
  /\ ~call.hasDefault
  /\ call.key = Join(<<sStatus, sItem, sId>>)
  /\ Reaches(result[sData], <<sStatus, sItem, sId>>, 2, JStr(sEncodedItem))
  /\ outcome = Return(JNum(7))

\* C16: when the path reaches null before its last segment, the next lookup
\* returns the default if one was passed and fails with PathNotFoundError
\* otherwise; no other error is raised.
C16_NullCursorIsUnresolved ==
  GetOnDataWithoutErrors =>
    \A segs \in SegmentLists : \A n \in 1..(Len(segs) - 1) :
      (call.key = Join(segs) /\ Reaches(result[sData], segs, n, JNull)) =>
        IF call.hasDefault THEN outcome = Return(call.default)
        ELSE RaisesKeyError(outcome)

\* The last call posted a request and the server answered.
Answered ==
  /\ tcall.op \in {"query", "query_from_file"}
  /\ tcall.reply # NoReply

\* A 2xx status.
Success(status) == 200 <= status /\ status < 300

\* C17: query checks the status, then decodes, then looks at errors: a status
\* that is not a success always fails with TransportError (HTTPError), a
\* success with a body that is no JSON always fails with
\* MalformedResponseError (JSONDecodeError), and GraphQLError (RuntimeError)
\* arises only from a success with a decodable body.
C17_NonSuccessAlwaysFails ==
  Answered =>
    /\ ~Success(tcall.reply.status) => toutcome = Raise("HTTPError", <<>>)
    /\ (Success(tcall.reply.status) /\ ~tcall.reply.json.ok)
         => toutcome = Raise("JSONDecodeError", <<>>)
    /\ RaisesRuntimeError(toutcome)
         => (Success(tcall.reply.status) /\ tcall.reply.json.ok)

\* C18: on a response without errors, get with a valid path and a default
\* never fails, whatever value is under data: it returns a value or the
\* default.
C18_GetWithDefaultNeverFails ==
  ( /\ call.op = "get"
    /\ call.hasDefault
    /\ ValidPath(call.key)
    /\ sErrors \notin DOMAIN result ) => outcome.kind = "return"

====
